---- MODULE Spec2Model ----
(***************************************************************************)
(* Panel-layout geometry engine of atompy (src/src/atompy/_plotting.py):   *)
(* the colorbar registry, the grid resolver, the bounding-box calculator,  *)
(* set_axes_size and the whitespace optimizer make_me_nice.                *)
(*                                                                         *)
(* Numbers.  The code computes with float64; the model computes with exact *)
(* rationals <<n, d>> (d > 0, lowest terms), i.e. the real-number meaning  *)
(* of every expression, so "equal" below means equal as real numbers.      *)
(* Every rescaling pass multiplies the size of these fractions; to keep    *)
(* them within TLC's integers a behaviour holds at most one invocation     *)
(* with fix_figwidth = True, and it is the only invocation of the          *)
(* optimizer in that behaviour.                                            *)
(* Lengths are inches, pads are given in pts and divided by PTS_PER_INCH   *)
(* as in the code, panel positions are fractions of the canvas size.       *)
(***************************************************************************)
EXTENDS Integers, Sequences, FiniteSets, TLC

PTS_PER_INCH == 72

\* bounds of the model: operations per behaviour, colorbars per behaviour
MaxSteps == 2
MaxColorbars == 2

(***************************************************************************)
(* Exact rational arithmetic standing for the code's float arithmetic.     *)
(***************************************************************************)
Abs(n) == IF n < 0 THEN -n ELSE n

RECURSIVE Gcd(_, _)
Gcd(a, b) == IF b = 0 THEN a ELSE Gcd(b, a % b)

Q(n, d) ==
    LET g == Gcd(Abs(n), Abs(d))
        s == IF d < 0 THEN -1 ELSE 1
    IN  <<(s * n) \div g, (s * d) \div g>>

Zero == <<0, 1>>
One == <<1, 1>>
\* sums and products cancel common factors first, to keep the integers small
RAdd(a, b) ==
    IF a[1] = 0 THEN b
    ELSE IF b[1] = 0 THEN a
    ELSE LET g == Gcd(a[2], b[2])
         IN  Q(a[1] * (b[2] \div g) + b[1] * (a[2] \div g),
               (a[2] \div g) * b[2])
RNeg(a) == <<-a[1], a[2]>>
RSub(a, b) == RAdd(a, RNeg(b))
RMul(a, b) ==
    IF a[1] = 0 \/ b[1] = 0 THEN Zero
    ELSE LET g1 == Gcd(Abs(a[1]), b[2])
             g2 == Gcd(Abs(b[1]), a[2])
         IN  <<(a[1] \div g1) * (b[1] \div g2),
               (a[2] \div g2) * (b[2] \div g1)>>
\* 1 / b, for b # 0
RInv(b) == IF b[1] < 0 THEN <<-b[2], -b[1]>> ELSE <<b[2], b[1]>>
RDiv(a, b) == RMul(a, RInv(b))
RLe(a, b) == RSub(a, b)[1] <= 0
RLt(a, b) == RSub(a, b)[1] < 0
RHalf(a) == RDiv(a, <<2, 1>>)

\* np.min / np.max over a non-empty collection
RMin(S) == CHOOSE x \in S : \A y \in S : RLe(x, y)
RMax(S) == CHOOSE x \in S : \A y \in S : RLe(y, x)

\* the sequence <<f[1], ..., f[n]>> with every element computed once
Tuple(f, n) == SubSeq(f, 1, n)

\* np.sum(s[:k]) for a sequence s of rationals (k may exceed len(s))
RECURSIVE RSumTo(_, _)
RSumTo(s, k) ==
    IF k <= 0 \/ Len(s) = 0 THEN Zero
    ELSE LET m == IF k > Len(s) THEN Len(s) ELSE k
         IN  RAdd(RSumTo(s, m - 1), s[m])
RSum(s) == RSumTo(s, Len(s))
\* np.sum(s[1:])
RSumTail(s) == IF Len(s) = 0 THEN Zero ELSE RSum(Tail(s))

Range(s) == {s[i] : i \in 1..Len(s)}

(***************************************************************************)
(* State.                                                                  *)
(***************************************************************************)
VARIABLES
    figsize,      \* canvas -> <<width, height>> in inches (fig.get_size_inches())
    figaxes,      \* canvas -> sequence of its panels (fig.get_axes())
    subplotspec,  \* panel -> its cell in a grid partition (ax.get_subplotspec())
    axpos,        \* panel -> normalized core box [x0, y0, width, height]
    colorbars,    \* _colorbar_manager.colorbars: sequence of attachments
    gcf,          \* the process's currently active canvas (plt.gcf())
    steps,        \* number of operations performed so far
    optimized,    \* "no", or how make_me_nice has been invoked: "free", "fixed"
    last,         \* the last operation: its arguments and its outcome
    frame,        \* arguments of the pending recursive call of make_me_nice
    pre           \* geometry and registry when make_me_nice was last invoked

vars == <<figsize, figaxes, subplotspec, axpos, colorbars, gcf, steps,
          optimized, last, frame, pre>>

Figs == {"A", "B"}

\* the single panel of canvas "B"; the panels of canvas "A" are 1..nrows*ncols,
\* colorbar panels get the ids -1, -2, ... in the order of their creation
AxB == 0

\* panels with an id above Undecorated render nothing outside their core box
\* (no labels, ticks or titles)
Undecorated == 100

\* ax.get_label() == _COLORBAR_LABEL: only add_colorbar creates such panels
IsColorbarAxes(a) == a < 0

\* ax.get_figure()
AxFig(a) == CHOOSE f \in Figs : a \in Range(figaxes[f])

BoxX1(p) == RAdd(p.x0, p.width)
BoxY1(p) == RAdd(p.y0, p.height)
Pos(x0, y0, width, height) ==
    [x0 |-> x0, y0 |-> y0, width |-> width, height |-> height]
\* a bounding box in inches (matplotlib Bbox extents)
Bbox(x0, y0, x1, y1) == [x0 |-> x0, y0 |-> y0, x1 |-> x1, y1 |-> y1]


(***************************************************************************)
(* The measurement capability, ax.get_tightbbox(renderer) / dpi: the box   *)
(* of a panel's own rendered content in inches.  Decorations (labels,      *)
(* ticks, titles) have a fixed physical size per panel: they depend        *)
(* neither on the panel's position nor on the canvas size, and they do not *)
(* scale with the panel.                                                   *)
(***************************************************************************)
Deco(a) ==
    IF a > Undecorated
    THEN [left |-> Zero, right |-> Zero, top |-> Zero, bottom |-> Zero]
    ELSE IF IsColorbarAxes(a)
    THEN [left |-> Zero, right |-> Q(1, 4), top |-> Zero, bottom |-> Q(1, 4)]
    ELSE [left |-> Q(1 + (a % 2), 4), right |-> Q(a % 3, 4),
          top |-> Q(1, 4), bottom |-> Q(1 + (a % 3), 4)]

\* get_axes_position_inch: the core box converted to inches with the size
\* of the panel's own canvas
\* the canvas width taken for both directions
\* the normalized box bbox on a canvas of fw x fh inches
ToInches(bbox, fw, fh) ==
    Bbox(RMul(bbox.x0, fw), RMul(bbox.y0, fh),
         RMul(BoxX1(bbox), fw), RMul(BoxY1(bbox), fh))

get_axes_position_inch_width_only(w, ax) ==
    ToInches(w.axpos[ax], w.figsize[AxFig(ax)][1], w.figsize[AxFig(ax)][1])

get_axes_position_inch(w, ax) ==
    ToInches(w.axpos[ax], w.figsize[AxFig(ax)][1], w.figsize[AxFig(ax)][2])

\* the core box b in inches, grown by the decorations d
Decorated(b, d) ==
    Bbox(RSub(b.x0, d.left), RSub(b.y0, d.bottom),
         RAdd(b.x1, d.right), RAdd(b.y1, d.top))

get_tightbbox(w, ax) == Decorated(get_axes_position_inch(w, ax), Deco(ax))

\* get_axes_tightbbox_inch: per-edge merge of the panel's own measured box
\* with the measured boxes of the colorbars registered for this panel
\* the registered colorbars of panel ax that lie at one of the locations locs
\* the parent not looked at
ColorbarsOfAnyParent(ax, locs) ==
    {i \in 1..Len(colorbars) : colorbars[i].location \in locs}

ColorbarsOf(ax, locs) ==
    {i \in 1..Len(colorbars) : /\ colorbars[i].parent_ax = ax
                               /\ colorbars[i].location \in locs}

\* the merge: tbbox_ax is the panel's own measured box, tb[i] the measured
\* box of the i-th registered colorbar
Merged(ax, tbbox_ax, tb) ==
    Bbox(RMin({tbbox_ax.x0}
                \cup {tb[i].x0 : i \in ColorbarsOf(ax, {"left", "top", "bottom"})}),
         RMin({tbbox_ax.y0}
                \cup {tb[i].y0 : i \in ColorbarsOf(ax, {"left", "right", "bottom"})}),
         RMax({tbbox_ax.x1}
                \cup {tb[i].x1 : i \in ColorbarsOf(ax, {"right", "top", "bottom"})}),
         RMax({tbbox_ax.y1}
                \cup {tb[i].y1 : i \in ColorbarsOf(ax, {"left", "right", "top"})}))

get_axes_tightbbox_inch(w, ax) ==
    Merged(ax, get_tightbbox(w, ax),
           Tuple([i \in 1..Len(colorbars) |-> get_tightbbox(w, colorbars[i].ax)],
                 Len(colorbars)))

(***************************************************************************)
(* update_colorbars(fig): every attachment whose colorbar panel is in fig  *)
(* is put flush against the current core box of its parent; the others are *)
(* skipped.                                                                *)
(***************************************************************************)
\* the box flush against the side location of bbox_ax, pad away from it and
\* thickness wide (pad and thickness normalized)
FlushAt(location, bbox_ax, pad, thickness) ==
    CASE location = "left" ->
           Pos(RSub(RSub(bbox_ax.x0, pad), thickness), bbox_ax.y0,
               thickness, bbox_ax.height)
      [] location = "right" ->
           Pos(RAdd(BoxX1(bbox_ax), pad), bbox_ax.y0, thickness, bbox_ax.height)
      [] location = "top" ->
           Pos(bbox_ax.x0, RAdd(BoxY1(bbox_ax), pad), bbox_ax.width, thickness)
      [] location = "bottom" ->
           Pos(bbox_ax.x0, RSub(RSub(bbox_ax.y0, pad), thickness),
               bbox_ax.width, thickness)

\* the canvas width, whatever the location
SizeAlongWidth(location, fwh) == fwh[1]

\* the canvas dimension a colorbar's pad and thickness are normalized with
SizeAlong(location, fwh) ==
    IF location \in {"left", "right"} THEN fwh[1] ELSE fwh[2]

ColorbarPosition(cb, bbox_ax, fwh) ==
    FlushAt(cb.location, bbox_ax,
            RDiv(cb.pad_inch, SizeAlong(cb.location, fwh)),
            RDiv(cb.thickness_inch, SizeAlong(cb.location, fwh)))

RECURSIVE UpdateFrom(_, _, _)
UpdateFrom(w, fig, i) ==
    IF i > Len(colorbars) THEN w
    ELSE LET cb == colorbars[i] IN
         IF cb.ax \notin Range(figaxes[fig])
         THEN UpdateFrom(w, fig, i + 1)
         ELSE UpdateFrom(
                [w EXCEPT !.axpos[cb.ax] =
                    ColorbarPosition(cb, w.axpos[cb.parent_ax], w.figsize[fig])],
                fig, i + 1)

\* every attachment is repositioned, also those on other canvases
RECURSIVE UpdateAllFrom(_, _, _)
UpdateAllFrom(w, fig, i) ==
    IF i > Len(colorbars) THEN w
    ELSE UpdateAllFrom(
           [w EXCEPT !.axpos[colorbars[i].ax] =
               ColorbarPosition(colorbars[i], w.axpos[colorbars[i].parent_ax],
                                w.figsize[fig])],
           fig, i + 1)

update_colorbars_everywhere(w, fig) == UpdateAllFrom(w, fig, 1)

update_colorbars(w, fig) == UpdateFrom(w, fig, 1)

(***************************************************************************)
(* set_axes_size: resize a panel, holding the anchor point fixed.  The     *)
(* code normalizes with the size of the active canvas (plt.gcf()) and ends *)
(* with update_colorbars() on the active canvas.                           *)
(***************************************************************************)
Anchors == {"center", "left", "right", "upper", "lower",
            "upper left", "upper right", "upper center",
            "center left", "center right", "center center",
            "lower left", "lower right", "lower center"}

\* anchor.split() after the aliases are resolved: <<vertical, horizontal>>
AnchorSplit(anchor) ==
    CASE anchor \in {"center", "center center"} -> <<"center", "center">>
      [] anchor \in {"left", "center left"} -> <<"center", "left">>
      [] anchor \in {"right", "center right"} -> <<"center", "right">>
      [] anchor \in {"upper", "upper center"} -> <<"upper", "center">>
      [] anchor \in {"lower", "lower center"} -> <<"lower", "center">>
      [] anchor = "upper left" -> <<"upper", "left">>
      [] anchor = "upper right" -> <<"upper", "right">>
      [] anchor = "lower left" -> <<"lower", "left">>
      [] anchor = "lower right" -> <<"lower", "right">>

\* the new normalized box: width x height, anchored in old_pos
Anchored(old_pos, width, height, anchor_split) ==
    Pos(CASE anchor_split[2] = "left" -> old_pos.x0
          [] anchor_split[2] = "right" ->
               RAdd(old_pos.x0, RSub(old_pos.width, width))
          [] anchor_split[2] = "center" ->
               RAdd(old_pos.x0, RHalf(RSub(old_pos.width, width))),
        CASE anchor_split[1] = "lower" -> old_pos.y0
          [] anchor_split[1] = "upper" ->
               RAdd(old_pos.y0, RSub(old_pos.height, height))
          [] anchor_split[1] = "center" ->
               RAdd(old_pos.y0, RHalf(RSub(old_pos.height, height))),
        width, height)

set_axes_size(w, width_inch, height_inch, ax, anchor) ==
    update_colorbars(
        [w EXCEPT !.axpos[ax] =
            Anchored(w.axpos[ax], RDiv(width_inch, w.figsize[gcf][1]),
                     RDiv(height_inch, w.figsize[gcf][2]), AnchorSplit(anchor))],
        gcf)

(***************************************************************************)
(* get_sorted_axes_grid: the non-colorbar panels of fig as a row-major     *)
(* matrix (row 1 = top row), or a ValueError.  A cell of a grid partition  *)
(* is [gs, nrows, ncols, num1, num2] with num1 = num2 = row*ncols + col    *)
(* for a panel that occupies one cell; gs = 0 stands for "no cell          *)
(* assignment" (get_subplotspec() is None).                                *)
(***************************************************************************)
NoSpec == [gs |-> 0, nrows |-> 0, ncols |-> 0, num1 |-> 0, num2 |-> 0]
NoAxes == -1000

\* the matrix filled column by column
get_sorted_axes_grid_column_major(fig) ==
    LET NotCb(a) == ~IsColorbarAxes(a)
        axs_unordered == SelectSeq(figaxes[fig], NotCb)
        n == Len(axs_unordered)
        first == subplotspec[axs_unordered[1]]
        \* the last panel of axs_unordered that claims the cell wins
        Claim(num) == {i \in 1..n : /\ subplotspec[axs_unordered[i]].num1 = num
                                    /\ subplotspec[axs_unordered[i]].num2 = num}
        At(num) == IF Claim(num) = {} THEN NoAxes
                   ELSE axs_unordered[CHOOSE i \in Claim(num) :
                                         \A j \in Claim(num) : j <= i]
    IN  IF \E i \in 1..n : subplotspec[axs_unordered[i]] = NoSpec
        THEN [error |-> "ValueError"]
        ELSE IF n = 0 THEN [error |-> "AssertionError"]
        ELSE IF \E i \in 1..n :
                  \/ subplotspec[axs_unordered[i]].gs # first.gs
                  \/ subplotspec[axs_unordered[i]].num1
                       # subplotspec[axs_unordered[i]].num2
        THEN [error |-> "ValueError"]
        ELSE [error |-> "none", nrows |-> first.nrows, ncols |-> first.ncols,
              axs |-> Tuple([r \in 1..first.nrows |->
                               Tuple([c \in 1..first.ncols |->
                                        At((c - 1) * first.nrows + (r - 1))],
                                     first.ncols)],
                            first.nrows)]

\* the resolver without the test for panels that span several cells
get_sorted_axes_grid_any_span(fig) ==
    LET NotCb(a) == ~IsColorbarAxes(a)
        axs_unordered == SelectSeq(figaxes[fig], NotCb)
        n == Len(axs_unordered)
        first == subplotspec[axs_unordered[1]]
        \* the last panel of axs_unordered that claims the cell wins
        Claim(num) == {i \in 1..n : /\ subplotspec[axs_unordered[i]].num1 = num
                                    /\ subplotspec[axs_unordered[i]].num2 = num}
        At(num) == IF Claim(num) = {} THEN NoAxes
                   ELSE axs_unordered[CHOOSE i \in Claim(num) :
                                         \A j \in Claim(num) : j <= i]
    IN  IF \E i \in 1..n : subplotspec[axs_unordered[i]] = NoSpec
        THEN [error |-> "ValueError"]
        ELSE IF n = 0 THEN [error |-> "AssertionError"]
        ELSE IF \E i \in 1..n :
                  subplotspec[axs_unordered[i]].gs # first.gs
        THEN [error |-> "ValueError"]
        ELSE [error |-> "none", nrows |-> first.nrows, ncols |-> first.ncols,
              axs |-> Tuple([r \in 1..first.nrows |->
                               Tuple([c \in 1..first.ncols |->
                                        At((r - 1) * first.ncols + (c - 1))],
                                     first.ncols)],
                            first.nrows)]

get_sorted_axes_grid(fig) ==
    LET NotCb(a) == ~IsColorbarAxes(a)
        axs_unordered == SelectSeq(figaxes[fig], NotCb)
        n == Len(axs_unordered)
        first == subplotspec[axs_unordered[1]]
        \* the last panel of axs_unordered that claims the cell wins
        Claim(num) == {i \in 1..n : /\ subplotspec[axs_unordered[i]].num1 = num
                                    /\ subplotspec[axs_unordered[i]].num2 = num}
        At(num) == IF Claim(num) = {} THEN NoAxes
                   ELSE axs_unordered[CHOOSE i \in Claim(num) :
                                         \A j \in Claim(num) : j <= i]
    IN  IF \E i \in 1..n : subplotspec[axs_unordered[i]] = NoSpec
        THEN [error |-> "ValueError"]
        ELSE IF n = 0 THEN [error |-> "AssertionError"]
        ELSE IF \E i \in 1..n :
                  \/ subplotspec[axs_unordered[i]].gs # first.gs
                  \/ subplotspec[axs_unordered[i]].num1
                       # subplotspec[axs_unordered[i]].num2
        THEN [error |-> "ValueError"]
        ELSE [error |-> "none", nrows |-> first.nrows, ncols |-> first.ncols,
              axs |-> Tuple([r \in 1..first.nrows |->
                               Tuple([c \in 1..first.ncols |->
                                        At((r - 1) * first.ncols + (c - 1))],
                                     first.ncols)],
                            first.nrows)]


(***************************************************************************)
(* Pad / margin arguments.  An ArrayLike argument is a scalar (shape ())   *)
(* or a sequence (shape (n,)); v holds its values in pts.                  *)
(***************************************************************************)
Scalar(x) == [scalar |-> TRUE, v |-> <<x>>]
Array(v) == [scalar |-> FALSE, v |-> v]
\* np.array([value] * n)
Full(value, n) == Array(Tuple([i \in 1..n |-> value], n))
\* pts / PTS_PER_INCH, elementwise
ToInch(v) == Tuple([i \in 1..Len(v) |-> Q(v[i], PTS_PER_INCH)], Len(v))

\* margin_pad_pts: broadcast when size == 1, else the shape must be (4,)
MarginPads(margin_pad_pts) ==
    IF Len(margin_pad_pts.v) = 1
    THEN [error |-> FALSE, pts |-> Full(margin_pad_pts.v[1], 4)]
    ELSE IF Len(margin_pad_pts.v) # 4
    THEN [error |-> TRUE, pts |-> margin_pad_pts]
    ELSE [error |-> FALSE, pts |-> margin_pad_pts]

\* col_pad_pts: looked at only when ncols > 1
ColPads(col_pad_pts, nrows, ncols) ==
    IF ncols > 1
    THEN IF Len(col_pad_pts.v) = 1
         THEN [error |-> FALSE, pts |-> Full(col_pad_pts.v[1], ncols - 1),
               inch |-> ToInch(Full(col_pad_pts.v[1], ncols - 1).v)]
         ELSE IF Len(col_pad_pts.v) # ncols - 1
         THEN [error |-> TRUE, pts |-> col_pad_pts, inch |-> <<>>]
         ELSE [error |-> FALSE, pts |-> col_pad_pts,
               inch |-> ToInch(col_pad_pts.v)]
    ELSE [error |-> FALSE, pts |-> col_pad_pts, inch |-> <<Zero>>]

\* row_pad_pts: looked at only when nrows > 1; a size-1 argument is
\* broadcast to nrows-1 values, any other shape is compared with (ncols-1,)
RowPads(row_pad_pts, nrows, ncols) ==
    IF nrows > 1
    THEN IF Len(row_pad_pts.v) = 1
         THEN [error |-> FALSE, pts |-> Full(row_pad_pts.v[1], nrows - 1),
               inch |-> ToInch(Full(row_pad_pts.v[1], nrows - 1).v)]
         ELSE IF Len(row_pad_pts.v) # ncols - 1
         THEN [error |-> TRUE, pts |-> row_pad_pts, inch |-> <<>>]
         ELSE [error |-> FALSE, pts |-> row_pad_pts,
               inch |-> ToInch(row_pad_pts.v)]
    ELSE [error |-> FALSE, pts |-> row_pad_pts, inch |-> <<Zero>>]

\* numpy.inf, and new_fw_inch > max_figwidth
Inf == <<1, 0>>
\* the comparison turned around
ExceedsReversed(x, max_figwidth) == max_figwidth # Inf /\ RLt(x, max_figwidth)
Exceeds(x, max_figwidth) == max_figwidth # Inf /\ RLt(max_figwidth, x)

(***************************************************************************)
(* make_me_nice: the body of one call, i.e. one pass of the optimizer.     *)
(* The result is the geometry the pass leaves behind and how it ended:     *)
(* "ok", the exception raised, or "recurse" with the arguments (next) of   *)
(* the recursive call that the fix_figwidth branch ends with.              *)
(***************************************************************************)
NoFrame == [fix_figwidth |-> FALSE, margin_pad_pts |-> Scalar(0),
            col_pad_pts |-> Scalar(0), row_pad_pts |-> Scalar(0),
            max_figwidth |-> <<1, 0>>, nruns |-> 0]

Result(w, outcome) == [w |-> w, outcome |-> outcome, next |-> NoFrame]

\* the loop of the fix_figwidth branch: set_axes_size on every panel of the
\* grid, in row-major order, starting with the k-th panel
RECURSIVE Rescale(_, _, _, _, _, _)
Rescale(w, axs, bboxes_inch, scale, ncols, k) ==
    IF k > Len(axs) * ncols THEN w
    ELSE LET row == ((k - 1) \div ncols) + 1
             col == ((k - 1) % ncols) + 1
             b == bboxes_inch[row][col]
         IN  Rescale(set_axes_size(w, RMul(RSub(b.x1, b.x0), scale),
                                   RMul(RSub(b.y1, b.y0), scale),
                                   axs[row][col], "center"),
                     axs, bboxes_inch, scale, ncols, k + 1)

\* the panels' core boxes and tight boxes in inches, as nrows x ncols matrices
bboxes_inch(w, grid) ==
    Tuple([row \in 1..grid.nrows |->
             Tuple([col \in 1..grid.ncols |->
                      get_axes_position_inch(w, grid.axs[row][col])],
                   grid.ncols)],
          grid.nrows)
tbboxes_inch(w, grid) ==
    Tuple([row \in 1..grid.nrows |->
             Tuple([col \in 1..grid.ncols |->
                      get_axes_tightbbox_inch(w, grid.axs[row][col])],
                   grid.ncols)],
          grid.nrows)

\* np.min(tb[:, col, 0, 0]), np.max(tb[:, col, 1, 0]),
\* np.min(tb[row, :, 0, 1]), np.max(tb[row, :, 1, 1])
MinX0(tb, col) == RMin({tb[row][col].x0 : row \in 1..Len(tb)})
MaxX1(tb, col) == RMax({tb[row][col].x1 : row \in 1..Len(tb)})
MinY0(tb, row) == RMin({tb[row][col].y0 : col \in 1..Len(tb[row])})
MaxY1(tb, row) == RMax({tb[row][col].y1 : col \in 1..Len(tb[row])})

\* the whitespace left of every column and above every row
extra_wspaces_inch(tb) ==
    Tuple([col \in 1..Len(tb[1]) |->
             IF col = 1 THEN MinX0(tb, 1)
             ELSE RSub(MinX0(tb, col), MaxX1(tb, col - 1))],
          Len(tb[1]))
\* the slack of the top row with its sign turned around
extra_hspaces_inch_top_reversed(tb, fh_inch) ==
    Tuple([row \in 1..Len(tb) |->
             IF row = 1 THEN RSub(MaxY1(tb, 1), fh_inch)
             ELSE RSub(MinY0(tb, row - 1), MaxY1(tb, row))],
          Len(tb))
extra_hspaces_inch(tb, fh_inch) ==
    Tuple([row \in 1..Len(tb) |->
             IF row = 1 THEN RSub(fh_inch, MaxY1(tb, 1))
             ELSE RSub(MinY0(tb, row - 1), MaxY1(tb, row))],
          Len(tb))

\* the pads in inches: [margin |-> [left, right, top, bottom], col, row]
PadsInch(margin, colp, rowp) ==
    [margin |-> [left |-> ToInch(margin.pts.v)[1],
                 right |-> ToInch(margin.pts.v)[2],
                 top |-> ToInch(margin.pts.v)[3],
                 bottom |-> ToInch(margin.pts.v)[4]],
     col |-> colp.inch, row |-> rowp.inch]

new_fw_inch(tb, pads_inch) ==
    RAdd(RAdd(RAdd(RSub(RSub(MaxX1(tb, Len(tb[1])), MinX0(tb, 1)),
                        RSumTail(extra_wspaces_inch(tb))),
                   pads_inch.margin.left), pads_inch.margin.right),
         RSum(pads_inch.col))
new_fh_inch(tb, fh_inch, pads_inch) ==
    RAdd(RAdd(RAdd(RSub(RSub(MaxY1(tb, 1), MinY0(tb, Len(tb))),
                        RSumTail(extra_hspaces_inch(tb, fh_inch))),
                   pads_inch.margin.top), pads_inch.margin.bottom),
         RSum(pads_inch.row))

\* the new lower left corner of the panel at (row, col), in inches
\* the column pads left out
x0s_inch_without_pads(bbox, wspaces, pads_inch, col) ==
    RAdd(RSub(bbox.x0, RSumTo(wspaces, col)), pads_inch.margin.left)

x0s_inch(bbox, wspaces, pads_inch, col) ==
    RAdd(RAdd(RSub(bbox.x0, RSumTo(wspaces, col)),
              RSumTo(pads_inch.col, col - 1)),
         pads_inch.margin.left)
y0s_inch(bbox, hspaces, pads_inch, fh_inch, new_fh, row) ==
    RSub(RAdd(RSub(RSub(RAdd(bbox.y0, RSumTo(hspaces, row)),
                        RSumTo(pads_inch.row, row - 1)),
                   fh_inch),
              new_fh),
         pads_inch.margin.top)

\* ax.set_position of the repositioning loop: the new normalized box of the
\* panel whose core box in inches is bbox
NewPosition(bbox, x0_inch, y0_inch, new_fw, new_fh) ==
    Pos(RDiv(x0_inch, new_fw), RDiv(y0_inch, new_fh),
        RDiv(RSub(bbox.x1, bbox.x0), new_fw),
        RDiv(RSub(bbox.y1, bbox.y0), new_fh))

\* the cell <<row, col>> of the grid that holds panel a, <<0, 0>> if none
CellOf(grid, a) ==
    IF \E row \in 1..grid.nrows, col \in 1..grid.ncols : grid.axs[row][col] = a
    THEN CHOOSE rc \in (1..grid.nrows) \X (1..grid.ncols) :
             grid.axs[rc[1]][rc[2]] = a
    ELSE <<0, 0>>

\* the repositioning loop over the grid: every panel of the grid is moved,
\* the other panels stay
Repositioned_axpos(w, grid, bboxes, wspaces, hspaces, pads_inch, fh_inch, new_fw, new_fh) ==
    [a \in DOMAIN w.axpos |->
        IF CellOf(grid, a) = <<0, 0>> THEN w.axpos[a]
        ELSE NewPosition(
                 bboxes[CellOf(grid, a)[1]][CellOf(grid, a)[2]],
                 x0s_inch(bboxes[CellOf(grid, a)[1]][CellOf(grid, a)[2]],
                          wspaces, pads_inch, CellOf(grid, a)[2]),
                 y0s_inch(bboxes[CellOf(grid, a)[1]][CellOf(grid, a)[2]],
                          hspaces, pads_inch, fh_inch, new_fh,
                          CellOf(grid, a)[1]),
                 new_fw, new_fh)]

\* the part of the body after the measurements: call holds fig and the
\* arguments of the call with the pads broadcast, tb the tight boxes
Arrange(w, call, grid, pads_inch, bboxes, tb, new_fw, new_fh) ==
    IF call.fix_figwidth
    THEN [w |-> Rescale(w, grid.axs, bboxes,
                        RDiv(w.figsize[call.fig][1], new_fw), grid.ncols, 1),
          outcome |-> "recurse",
          next |-> [fix_figwidth |-> call.nruns > 1,
                    margin_pad_pts |-> call.margin_pad_pts,
                    col_pad_pts |-> call.col_pad_pts,
                    row_pad_pts |-> call.row_pad_pts,
                    max_figwidth |-> Inf, nruns |-> call.nruns - 1]]
    ELSE IF Exceeds(new_fw, call.max_figwidth)
    THEN Result(w, "FigureWidthTooLargeError")
    ELSE Result(update_colorbars(
                    [figsize |-> [w.figsize EXCEPT
                                    ![call.fig] = <<new_fw, new_fh>>],
                     axpos |-> Repositioned_axpos(
                                   w, grid, bboxes, extra_wspaces_inch(tb),
                                   extra_hspaces_inch(tb, w.figsize[call.fig][2]),
                                   pads_inch, w.figsize[call.fig][2],
                                   new_fw, new_fh)],
                    gcf),
                "ok")

\* the measurements: core boxes, tight boxes, new canvas width and height
Measure(w, call, grid, pads_inch, tb) ==
    Arrange(w, call, grid, pads_inch, bboxes_inch(w, grid), tb,
            new_fw_inch(tb, pads_inch),
            new_fh_inch(tb, w.figsize[call.fig][2], pads_inch))

\* the validation of the pads against the grid
Validate(w, call, grid, margin, colp, rowp) ==
    IF margin.error \/ colp.error \/ rowp.error
    THEN Result(w, "ValueError")
    ELSE Measure(w, [call EXCEPT !.margin_pad_pts = margin.pts,
                                 !.col_pad_pts = colp.pts,
                                 !.row_pad_pts = rowp.pts],
                 grid, PadsInch(margin, colp, rowp), tbboxes_inch(w, grid))

\* the grid of the canvas is resolved first
Resolve(w, call, grid) ==
    IF grid.error # "none" THEN Result(w, grid.error)
    ELSE Validate(w, call, grid, MarginPads(call.margin_pad_pts),
                  ColPads(call.col_pad_pts, grid.nrows, grid.ncols),
                  RowPads(call.row_pad_pts, grid.nrows, grid.ncols))

make_me_nice(w, fig, fix_figwidth, margin_pad_pts, col_pad_pts, row_pad_pts, max_figwidth, nruns) ==
    Resolve(w, [fig |-> fig, fix_figwidth |-> fix_figwidth,
                margin_pad_pts |-> margin_pad_pts, col_pad_pts |-> col_pad_pts,
                row_pad_pts |-> row_pad_pts, max_figwidth |-> max_figwidth,
                nruns |-> nruns],
            get_sorted_axes_grid(fig))


(***************************************************************************)
(* Initial states: canvas "A" holds an nrows x ncols grid of panels        *)
(* (plt.subplots(nrows, ncols)), canvas "B" a single panel; no colorbar    *)
(* has been added.                                                         *)
(***************************************************************************)
None == -1

NoCall == [op |-> "none", fig |-> "A", fix_figwidth |-> FALSE,
           margin_pad_pts |-> Scalar(0), col_pad_pts |-> Scalar(0),
           row_pad_pts |-> Scalar(0), max_figwidth |-> Inf, nruns |-> 0,
           outcome |-> "ok", passes |-> 0]

\* every cell of the grid of "A" is 2 x 2 inches; the panel in it starts
\* 1/2 inch from the cell's left and lower edge and is 1 to 5/4 inches wide
\* and high, so that the columns and rows are ragged
GridPos(nrows, ncols, row, col) ==
    Pos(Q(8 * (col - 1) + 2, 8 * ncols), Q(8 * (nrows - row) + 2, 8 * nrows),
        Q(4 + ((row + col) % 2), 8 * ncols), Q(4 + (col % 2), 8 * nrows))

InitGrid(nrows, ncols) ==
    /\ figsize = [f \in Figs |-> IF f = "A"
                                 THEN <<Q(2 * ncols, 1), Q(2 * nrows, 1)>>
                                 ELSE <<Q(4, 1), Q(3, 1)>>]
    /\ figaxes = [f \in Figs |-> IF f = "A"
                                 THEN [i \in 1..(nrows * ncols) |-> i]
                                 ELSE <<AxB>>]
    /\ subplotspec =
         [a \in 0..(nrows * ncols) |->
            IF a = AxB
            THEN [gs |-> 2, nrows |-> 1, ncols |-> 1, num1 |-> 0, num2 |-> 0]
            ELSE [gs |-> 1, nrows |-> nrows, ncols |-> ncols,
                  num1 |-> a - 1, num2 |-> a - 1]]
    /\ axpos =
         [a \in 0..(nrows * ncols) |->
            IF a = AxB THEN Pos(Q(1, 8), Q(1, 6), Q(3, 4), Q(2, 3))
            ELSE GridPos(nrows, ncols, ((a - 1) \div ncols) + 1,
                         ((a - 1) % ncols) + 1)]
    /\ colorbars = <<>>
    /\ steps = 0
    /\ optimized = "no"
    /\ last = NoCall
    /\ frame = NoFrame
    /\ pre = [figsize |-> figsize, axpos |-> axpos, colorbars |-> colorbars]

\* the grid shapes <<nrows, ncols>> of canvas "A"
Shapes == {<<1, 1>>, <<1, 2>>, <<2, 1>>, <<2, 3>>, <<3, 2>>}

Init ==
    /\ gcf \in Figs
    /\ \E shape \in Shapes : InitGrid(shape[1], shape[2])

(***************************************************************************)
(* Operations.                                                             *)
(***************************************************************************)
\* plt.figure(f): another canvas becomes the active one
Figure(f) ==
    /\ last.outcome # "running"
    /\ f # gcf
    /\ gcf' = f
    /\ UNCHANGED <<figsize, figaxes, subplotspec, axpos, colorbars, steps,
                   optimized, last, frame, pre>>

ColorbarAxes == {a \in DOMAIN axpos : IsColorbarAxes(a)}
GridAxes == {a \in DOMAIN axpos : ~IsColorbarAxes(a)}

\* the normalized thickness: 5% of the parent's extent by default
Thickness(thickness_pts, location, bbox, fwh) ==
    IF thickness_pts = None
    THEN RMul(IF location \in {"left", "right"} THEN bbox.width ELSE bbox.height,
              Q(5, 100))
    ELSE RDiv(Q(thickness_pts, PTS_PER_INCH), SizeAlong(location, fwh))

\* the normalized pad: 60% of the thickness by default
Pad(pad_pts, thickness_pts, location, bbox, fwh) ==
    IF pad_pts = None
    THEN RMul(Thickness(thickness_pts, location, bbox, fwh), Q(6, 10))
    ELSE RDiv(Q(pad_pts, PTS_PER_INCH), SizeAlong(location, fwh))

\* the new colorbar panel is created on fig next to its parent and the
\* attachment is appended to the registry
Register(fig, ax, location, thickness, pad, colorbar_axes) ==
    /\ steps' = steps + 1
    /\ figaxes' = [figaxes EXCEPT ![fig] = Append(@, colorbar_axes)]
    /\ axpos' = (colorbar_axes :> FlushAt(location, axpos[ax], pad, thickness))
                   @@ axpos
    /\ colorbars' =
         Append(colorbars,
                [ax |-> colorbar_axes, parent_ax |-> ax, location |-> location,
                 thickness_inch |->
                     RMul(thickness, SizeAlong(location, figsize[fig])),
                 pad_inch |-> RMul(pad, SizeAlong(location, figsize[fig]))])
    /\ UNCHANGED <<figsize, subplotspec, gcf, optimized, frame>>

\* add_colorbar(mappable, ax, location, thickness_pts, pad_pts)
AddColorbar(ax, location, thickness_pts, pad_pts) ==
    /\ steps < MaxSteps
    /\ last.outcome # "running"
    /\ Cardinality(ColorbarAxes) < MaxColorbars
    /\ Register(gcf, ax, location,
                Thickness(thickness_pts, location, axpos[ax], figsize[gcf]),
                Pad(pad_pts, thickness_pts, location, axpos[ax], figsize[gcf]),
                -(Cardinality(ColorbarAxes) + 1))
    /\ pre' = [figsize |-> figsize, axpos |-> axpos, colorbars |-> colorbars]
    /\ last' = [ax |-> ax, location |-> location,
                thickness_pts |-> thickness_pts, pad_pts |-> pad_pts]
                 @@ [NoCall EXCEPT !.op = "add_colorbar", !.fig = gcf]

\* one pass of make_me_nice has run with the result res: the geometry it
\* leaves behind, the arguments of the recursive call it ends with (if
\* any), and the record of the invocation
Pass(res, invocation) ==
    /\ figsize' = res.w.figsize
    /\ axpos' = res.w.axpos
    /\ frame' = res.next
    /\ last' = [invocation EXCEPT
                  !.outcome = IF res.outcome = "recurse" THEN "running"
                              ELSE res.outcome]

\* make_me_nice(fig, fix_figwidth, margin_pad_pts, col_pad_pts, row_pad_pts,
\*              max_figwidth, nruns): the call and its first pass
MakeMeNice(fig, fix_figwidth, margin_pad_pts, col_pad_pts, row_pad_pts, max_figwidth, nruns) ==
    /\ steps < MaxSteps
    /\ last.outcome # "running"
    /\ steps' = steps + 1
    /\ optimized' = IF fix_figwidth THEN "fixed" ELSE "free"
    /\ pre' = [figsize |-> figsize, axpos |-> axpos, colorbars |-> colorbars]
    /\ Pass(make_me_nice([figsize |-> figsize, axpos |-> axpos], fig,
                         fix_figwidth, margin_pad_pts, col_pad_pts,
                         row_pad_pts, max_figwidth, nruns),
            [op |-> "make_me_nice", fig |-> fig,
             fix_figwidth |-> fix_figwidth, margin_pad_pts |-> margin_pad_pts,
             col_pad_pts |-> col_pad_pts, row_pad_pts |-> row_pad_pts,
             max_figwidth |-> max_figwidth, nruns |-> nruns,
             outcome |-> "running", passes |-> 1])
    /\ UNCHANGED <<figaxes, subplotspec, colorbars, gcf>>

\* the recursive call at the end of the fix_figwidth branch, and its pass
Recurse ==
    /\ last.outcome = "running"
    /\ Pass(make_me_nice([figsize |-> figsize, axpos |-> axpos], last.fig,
                         frame.fix_figwidth, frame.margin_pad_pts,
                         frame.col_pad_pts, frame.row_pad_pts,
                         frame.max_figwidth, frame.nruns),
            [last EXCEPT !.passes = @ + 1])
    /\ UNCHANGED <<figaxes, subplotspec, colorbars, gcf, steps, optimized,
                   pre>>

\* the arguments the operations are called with
Locations == {"left", "right", "top", "bottom"}
\* the locations colorbars are added at
AddedAt == {"right", "bottom"}
\* <<margin_pad_pts, col_pad_pts, row_pad_pts>>
AllScalar == <<Scalar(18), Scalar(36), Scalar(36)>>
AllArray == <<Array(<<18, 36, 54, 72>>), Array(<<18, 36>>), Array(<<18, 36>>)>>
RowArray == <<Scalar(18), Scalar(36), Array(<<18, 36>>)>>
AllSingle == <<Array(<<18>>), Array(<<36>>), Array(<<36>>)>>
PadArgs == {AllScalar, AllArray, RowArray, AllSingle}
\* <<fix_figwidth, max_figwidth, nruns>>
ModeArgs == {<<TRUE, Inf, 1>>, <<TRUE, Inf, 2>>,
             <<FALSE, Inf, 1>>, <<FALSE, Q(4, 1), 1>>}

DoFigure == \E f \in Figs : Figure(f)

DoAddColorbar ==
    \E location \in AddedAt : AddColorbar(1, location, 18, 18)

DoMakeMeNice ==
    \E mode \in ModeArgs, pads \in PadArgs :
        /\ optimized = (IF mode[1] THEN "no" ELSE optimized)
        /\ optimized # "fixed"
        /\ MakeMeNice("A", mode[1], pads[1], pads[2], pads[3], mode[2], mode[3])

Next == DoFigure \/ DoAddColorbar \/ DoMakeMeNice \/ Recurse

Spec == Init /\ [][Next]_vars


(***************************************************************************)
(* Properties.  They are stated on the state an invocation of make_me_nice *)
(* leaves behind: last holds its arguments and its outcome, pre the        *)
(* geometry it started from.                                               *)
(***************************************************************************)
Invoked == last.op = "make_me_nice"
Now == [figsize |-> figsize, axpos |-> axpos]
Before == [figsize |-> pre.figsize, axpos |-> pre.axpos]
GeometryUnchanged == figsize = pre.figsize /\ axpos = pre.axpos
Grid == get_sorted_axes_grid(last.fig)
GridAxesOf == {Grid.axs[r][c] : r \in 1..Grid.nrows, c \in 1..Grid.ncols}
IsSequence(pad) == ~pad.scalar

\* C1: an invocation that fails with a pad/margin shape mismatch (in either
\* mode, also when a recursive re-invocation raises it) leaves the canvas
\* size and every panel's position as they were before the invocation.
ShapeMismatchLeavesGeometry ==
    (Invoked /\ last.outcome = "ValueError") => GeometryUnchanged

\* C2: an invocation whose margin, column and row pads are all scalars never
\* fails with a shape mismatch, for every grid shape, mode and nruns >= 1;
\* every pass of it gets sequences of the lengths 4, ncols-1 and nrows-1.
ScalarPadsNeverMismatch ==
    (/\ Invoked
     /\ last.margin_pad_pts.scalar
     /\ last.col_pad_pts.scalar
     /\ last.row_pad_pts.scalar)
    => /\ last.outcome # "ValueError"
       /\ last.outcome = "running" =>
            /\ Len(frame.margin_pad_pts.v) = 4
            /\ Grid.ncols > 1 => Len(frame.col_pad_pts.v) = Grid.ncols - 1
            /\ Grid.nrows > 1 => Len(frame.row_pad_pts.v) = Grid.nrows - 1

\* C3: with fix_figwidth = False and max_figwidth smaller than the target
\* width (the width the same call produces without a maximum), the call
\* fails with FigureWidthTooLargeError and the canvas sizes, every panel's
\* position (colorbar panels included) and the colorbar registry are as
\* before the call; with a max_figwidth that is not smaller it succeeds.
TargetWidth ==
    make_me_nice(Before, last.fig, FALSE, last.margin_pad_pts,
                 last.col_pad_pts, last.row_pad_pts, Inf,
                 last.nruns).w.figsize[last.fig][1]

TooLargeFailsUnchanged ==
    (Invoked /\ ~last.fix_figwidth /\ last.outcome # "ValueError") =>
        IF last.max_figwidth # Inf /\ RLt(last.max_figwidth, TargetWidth)
        THEN /\ last.outcome = "FigureWidthTooLargeError"
             /\ GeometryUnchanged
             /\ colorbars = pre.colorbars
        ELSE last.outcome = "ok"

TooLargeWitness ==
    /\ Invoked
    /\ ~last.fix_figwidth
    /\ last.outcome = "FigureWidthTooLargeError"
    /\ RLt(last.max_figwidth, TargetWidth)
    /\ colorbars # <<>>

\* C4: a row_pad_pts sequence is validated against nrows-1, independently of
\* ncols: exactly nrows-1 values are accepted, any other length is rejected
\* with a shape mismatch.  (Margin and column pads are scalars here, so the
\* row pads decide the outcome.)
RowPadsAgainstRows ==
    (/\ Invoked
     /\ ~last.fix_figwidth
     /\ last.max_figwidth = Inf
     /\ last.margin_pad_pts.scalar
     /\ last.col_pad_pts.scalar
     /\ IsSequence(last.row_pad_pts))
    => IF Len(last.row_pad_pts.v) = Grid.nrows - 1
       THEN last.outcome = "ok"
       ELSE last.outcome = "ValueError"

\* C5: a col_pad_pts sequence whose length differs from ncols-1 is rejected
\* with a shape mismatch for every ncols >= 1, and margin_pad_pts is accepted
\* only as a scalar or as exactly 4 values.
ColPadsAndMarginsAgainstShape ==
    (/\ Invoked
     /\ \/ /\ IsSequence(last.col_pad_pts)
           /\ Len(last.col_pad_pts.v) # Grid.ncols - 1
        \/ /\ IsSequence(last.margin_pad_pts)
           /\ Len(last.margin_pad_pts.v) # 4)
    => last.outcome = "ValueError"


\* what was asked for, in inches: the i-th value of a pad argument
RequestedInch(pad, i) ==
    Q(IF Len(pad.v) = 1 THEN pad.v[1] ELSE pad.v[i], PTS_PER_INCH)

\* the tight boxes of a column / a row of the grid in the geometry w
ColumnX0(w, c) ==
    RMin({get_axes_tightbbox_inch(w, Grid.axs[r][c]).x0 : r \in 1..Grid.nrows})
ColumnX1(w, c) ==
    RMax({get_axes_tightbbox_inch(w, Grid.axs[r][c]).x1 : r \in 1..Grid.nrows})
RowY0(w, r) ==
    RMin({get_axes_tightbbox_inch(w, Grid.axs[r][c]).y0 : c \in 1..Grid.ncols})
RowY1(w, r) ==
    RMax({get_axes_tightbbox_inch(w, Grid.axs[r][c]).y1 : c \in 1..Grid.ncols})

\* a successful invocation with fix_figwidth = False: one repositioning pass
Repositioned == Invoked /\ ~last.fix_figwidth /\ last.outcome = "ok"

\* C6: after a successful fix_figwidth = False pass the left margin, the
\* right margin and every gap between adjacent columns, measured on the
\* tight boxes, are exactly the requested values.
HorizontalPadsAchieved ==
    Repositioned =>
        /\ ColumnX0(Now, 1) = RequestedInch(last.margin_pad_pts, 1)
        /\ RSub(figsize[last.fig][1], ColumnX1(Now, Grid.ncols))
             = RequestedInch(last.margin_pad_pts, 2)
        /\ \A c \in 2..Grid.ncols :
             RSub(ColumnX0(Now, c), ColumnX1(Now, c - 1))
               = RequestedInch(last.col_pad_pts, c - 1)

\* C7: after a successful fix_figwidth = False pass the top margin, the
\* bottom margin and every gap between adjacent rows are exactly the
\* requested values, for every nrows >= 1, and the new canvas height is the
\* rendered vertical span minus the existing row gaps plus the top and
\* bottom margins plus the sum of the nrows-1 row pads.
VerticalPadsAchieved ==
    Repositioned =>
        LET nrows == Grid.nrows
            span == RSub(RowY1(Before, 1), RowY0(Before, nrows))
            gaps == RSum([r \in 1..(nrows - 1) |->
                            RSub(RowY0(Before, r), RowY1(Before, r + 1))])
            pads == RSum([r \in 1..(nrows - 1) |->
                            RequestedInch(last.row_pad_pts, r)])
        IN  /\ RSub(figsize[last.fig][2], RowY1(Now, 1))
                 = RequestedInch(last.margin_pad_pts, 3)
            /\ RowY0(Now, nrows) = RequestedInch(last.margin_pad_pts, 4)
            /\ \A r \in 2..nrows :
                 RSub(RowY0(Now, r - 1), RowY1(Now, r))
                   = RequestedInch(last.row_pad_pts, r - 1)
            /\ figsize[last.fig][2]
                 = RAdd(RAdd(RSub(span, gaps),
                             RAdd(RequestedInch(last.margin_pad_pts, 3),
                                  RequestedInch(last.margin_pad_pts, 4))),
                        pads)

\* C8: the fix_figwidth = False pass is idempotent: run a second time with
\* the same pads and margins, it succeeds and leaves the canvas size and
\* every panel's position as the first run produced them (a third run then
\* starts from the same geometry as the second and repeats it).
RepeatOf(w) ==
    make_me_nice(w, last.fig, FALSE, last.margin_pad_pts, last.col_pad_pts,
                 last.row_pad_pts, last.max_figwidth, last.nruns)

RepositioningIdempotent ==
    Repositioned => RepeatOf(Now) = Result(Now, "ok")

\* C9: with fix_figwidth = True the canvas width after the invocation equals
\* the canvas width before it, for every nruns >= 1.
FixedWidthKept ==
    (Invoked /\ last.fix_figwidth /\ last.outcome = "ok") =>
        figsize[last.fig][1] = pre.figsize[last.fig][1]

\* C10: in the fix_figwidth = False pass every panel of the grid keeps its
\* physical width and height (normalized size times canvas size); the size
\* of the other canvas is not touched.
PanelSizesKept ==
    Repositioned =>
        /\ \A a \in GridAxesOf :
             /\ RMul(axpos[a].width, figsize[last.fig][1])
                  = RMul(pre.axpos[a].width, pre.figsize[last.fig][1])
             /\ RMul(axpos[a].height, figsize[last.fig][2])
                  = RMul(pre.axpos[a].height, pre.figsize[last.fig][2])
        /\ \A f \in Figs \ {last.fig} : figsize[f] = pre.figsize[f]

PanelSizesKeptWitness ==
    /\ Repositioned
    /\ Grid.nrows > 1
    /\ Grid.ncols > 1
    /\ figsize[last.fig][1] # pre.figsize[last.fig][1]
    /\ figsize[last.fig][2] # pre.figsize[last.fig][2]
    /\ \A a \in GridAxesOf : axpos[a] # pre.axpos[a]


(***************************************************************************)
(* Two undecorated panels side by side: canvas "A" holds a 1 x 2 grid      *)
(* whose panels each take half of the canvas width, so that the columns    *)
(* touch and nothing is rendered outside the core boxes.                   *)
(***************************************************************************)
LeftAx == Undecorated + 1
RightAx == Undecorated + 2

InitBare(fw, fh, y0, height) ==
    /\ figsize = [f \in Figs |-> IF f = "A" THEN <<Q(fw, 1), Q(fh, 1)>>
                                 ELSE <<Q(4, 1), Q(3, 1)>>]
    /\ figaxes = [f \in Figs |-> IF f = "A" THEN <<LeftAx, RightAx>>
                                 ELSE <<AxB>>]
    /\ subplotspec =
         [a \in {AxB, LeftAx, RightAx} |->
            IF a = AxB
            THEN [gs |-> 2, nrows |-> 1, ncols |-> 1, num1 |-> 0, num2 |-> 0]
            ELSE [gs |-> 1, nrows |-> 1, ncols |-> 2,
                  num1 |-> a - LeftAx, num2 |-> a - LeftAx]]
    /\ axpos =
         [a \in {AxB, LeftAx, RightAx} |->
            IF a = AxB THEN Pos(Q(1, 8), Q(1, 6), Q(3, 4), Q(2, 3))
            ELSE Pos(Q(a - LeftAx, 2), y0, Q(1, 2), height)]
    /\ colorbars = <<>>
    /\ steps = 0
    /\ optimized = "no"
    /\ last = NoCall
    /\ frame = NoFrame
    /\ pre = [figsize |-> figsize, axpos |-> axpos, colorbars |-> colorbars]

\* canvas sizes in inches, and the panels' vertical extent <<y0, height>>
BareSizes == {<<2, 2>>, <<3, 2>>, <<4, 3>>, <<6, 4>>}
BareExtents == {<<Zero, One>>, <<Q(1, 4), Q(1, 2)>>, <<Q(1, 8), Q(3, 4)>>}

InitTwoBare ==
    /\ gcf \in Figs
    /\ \E size \in BareSizes, extent \in BareExtents :
          InitBare(size[1], size[2], extent[1], extent[2])

\* margin pads and the single column pad, in pts
BareMargins == {Scalar(0), Scalar(18)}
BareColPads == {Scalar(20), Scalar(36), Array(<<20>>), Array(<<9>>)}

DoMakeMeNiceBare ==
    \E margin \in BareMargins, pad \in BareColPads :
        MakeMeNice("A", FALSE, margin, pad, Scalar(36), Inf, 1)

NextBare == DoFigure \/ DoMakeMeNiceBare

SpecBare == InitTwoBare /\ [][NextBare]_vars

\* the two columns touch and each panel takes half of the canvas width
TouchingHalves(ap) ==
    /\ ap[LeftAx].x0 = Zero
    /\ ap[LeftAx].width = Q(1, 2)
    /\ ap[RightAx].x0 = Q(1, 2)
    /\ ap[RightAx].width = Q(1, 2)

PaddedFromTouching ==
    /\ Repositioned
    /\ last.margin_pad_pts = Scalar(0)
    /\ TouchingHalves(pre.axpos)

\* C11: on a 1 x 2 grid of undecorated panels that each take half of the
\* canvas width, a fix_figwidth = False pass with margins 0 and the column
\* pad p makes the canvas wider by exactly p / 72 inch, and afterwards the
\* left panel's right edge and the right panel's left edge are p / 72 inch
\* apart.
SinglePadWidens ==
    PaddedFromTouching =>
        /\ figsize["A"][1]
             = RAdd(pre.figsize["A"][1], RequestedInch(last.col_pad_pts, 1))
        /\ RSub(RMul(axpos[RightAx].x0, figsize["A"][1]),
                RMul(BoxX1(axpos[LeftAx]), figsize["A"][1]))
             = RequestedInch(last.col_pad_pts, 1)

SinglePadWidensWitness ==
    /\ PaddedFromTouching
    /\ last.col_pad_pts = Scalar(20)
    /\ figsize["A"][1] # pre.figsize["A"][1]
    /\ axpos[RightAx] # pre.axpos[RightAx]


(***************************************************************************)
(* The grid resolver as an operation.  Canvas "A" lists the panels of its  *)
(* grid in any order (the order of their creation); one of its panels may  *)
(* have been created without a cell (fig.add_axes), in another grid        *)
(* partition, or spanning two cells (fig.add_subplot(gs[1, :])).           *)
(***************************************************************************)
\* orders of the panels 1..n in fig.get_axes()
Identity(n) == [i \in 1..n |-> i]
Reversed(n) == [i \in 1..n |-> n + 1 - i]
Rotated(n) == [i \in 1..n |-> (i % n) + 1]
Orders(n) == {Identity(n), Reversed(n), Rotated(n)}

\* the cell of panel n, the last one created, in an nrows x ncols partition
Layouts == {"grid", "no cell", "other partition", "two columns", "two rows"}
CellOfLast(layout, nrows, ncols) ==
    CASE layout = "grid" ->
           [gs |-> 1, nrows |-> nrows, ncols |-> ncols,
            num1 |-> nrows * ncols - 1, num2 |-> nrows * ncols - 1]
      [] layout = "no cell" -> NoSpec
      [] layout = "other partition" ->
           [gs |-> 3, nrows |-> nrows, ncols |-> ncols,
            num1 |-> nrows * ncols - 1, num2 |-> nrows * ncols - 1]
      [] layout = "two columns" ->
           [gs |-> 1, nrows |-> nrows, ncols |-> ncols,
            num1 |-> nrows * ncols - 2, num2 |-> nrows * ncols - 1]
      [] layout = "two rows" ->
           [gs |-> 1, nrows |-> nrows, ncols |-> ncols,
            num1 |-> nrows * ncols - 1 - ncols, num2 |-> nrows * ncols - 1]

InitListed(nrows, ncols, order, layout) ==
    /\ figsize = [f \in Figs |-> IF f = "A"
                                 THEN <<Q(2 * ncols, 1), Q(2 * nrows, 1)>>
                                 ELSE <<Q(4, 1), Q(3, 1)>>]
    /\ figaxes = [f \in Figs |-> IF f = "A" THEN order ELSE <<AxB>>]
    /\ subplotspec =
         [a \in 0..(nrows * ncols) |->
            IF a = AxB
            THEN [gs |-> 2, nrows |-> 1, ncols |-> 1, num1 |-> 0, num2 |-> 0]
            ELSE IF a = nrows * ncols THEN CellOfLast(layout, nrows, ncols)
            ELSE [gs |-> 1, nrows |-> nrows, ncols |-> ncols,
                  num1 |-> a - 1, num2 |-> a - 1]]
    /\ axpos =
         [a \in 0..(nrows * ncols) |->
            IF a = AxB THEN Pos(Q(1, 8), Q(1, 6), Q(3, 4), Q(2, 3))
            ELSE GridPos(nrows, ncols, ((a - 1) \div ncols) + 1,
                         ((a - 1) % ncols) + 1)]
    /\ colorbars = <<>>
    /\ steps = 0
    /\ optimized = "no"
    /\ last = NoCall
    /\ frame = NoFrame
    /\ pre = [figsize |-> figsize, axpos |-> axpos, colorbars |-> colorbars]

ListedShapes == {<<1, 2>>, <<2, 2>>, <<2, 3>>}

InitAnyListing ==
    /\ gcf \in Figs
    /\ \E shape \in ListedShapes, layout \in Layouts :
         /\ layout = "two rows" => shape[1] > 1
         /\ \E order \in Orders(shape[1] * shape[2]) :
               InitListed(shape[1], shape[2], order, layout)

\* get_sorted_axes_grid(fig); fig = None stands for the active canvas
GetSortedAxesGrid(fig) ==
    /\ steps < MaxSteps
    /\ steps' = steps + 1
    /\ pre' = [figsize |-> figsize, axpos |-> axpos, colorbars |-> colorbars]
    /\ last' = [result |-> get_sorted_axes_grid(IF fig = "None" THEN gcf ELSE fig)]
                 @@ [NoCall EXCEPT !.op = "get_sorted_axes_grid",
                                   !.fig = IF fig = "None" THEN gcf ELSE fig]
    /\ UNCHANGED <<figsize, figaxes, subplotspec, axpos, colorbars, gcf,
                   optimized, frame>>

DoGetSortedAxesGrid == \E fig \in Figs \cup {"None"} : GetSortedAxesGrid(fig)

NextListing == DoFigure \/ DoAddColorbar \/ DoGetSortedAxesGrid

SpecListing == InitAnyListing /\ [][NextListing]_vars

Resolved == last.op = "get_sorted_axes_grid"
\* the non-colorbar panels of canvas fig, whatever their order
PanelsOf(fig) == {a \in Range(figaxes[fig]) : ~IsColorbarAxes(a)}
\* the panels of fig occupy every cell of one grid partition exactly once
OneGridFilled(fig) ==
    /\ PanelsOf(fig) # {}
    /\ \A a \in PanelsOf(fig) : subplotspec[a] # NoSpec
    /\ \A a, b \in PanelsOf(fig) :
         /\ subplotspec[a].gs = subplotspec[b].gs
         /\ subplotspec[a].nrows = subplotspec[b].nrows
         /\ subplotspec[a].ncols = subplotspec[b].ncols
    /\ \A a \in PanelsOf(fig) :
         \A num \in 0..(subplotspec[a].nrows * subplotspec[a].ncols - 1) :
            Cardinality({b \in PanelsOf(fig) :
                            /\ subplotspec[b].num1 = num
                            /\ subplotspec[b].num2 = num}) = 1

\* the panel assigned to cell (r, c), rows counted from the top, r, c >= 0
AssignedTo(fig, r, c) ==
    CHOOSE a \in PanelsOf(fig) :
        /\ subplotspec[a].num1 = r * subplotspec[a].ncols + c
        /\ subplotspec[a].num2 = subplotspec[a].num1

\* C12: for a canvas whose non-colorbar panels fill one nrows x ncols grid,
\* each cell exactly once, get_sorted_axes_grid returns an nrows x ncols
\* matrix whose entry [r][c] is the panel assigned to cell (r, c), row 0
\* being the top row; every non-colorbar panel appears exactly once and no
\* colorbar panel appears; the result is the same for every order in which
\* the canvas lists its panels.
GridMatrixOfAssignedPanels ==
    (Resolved /\ OneGridFilled(last.fig)) =>
        /\ last.result.error = "none"
        /\ Len(last.result.axs) = last.result.nrows
        /\ \A r \in 1..last.result.nrows :
             /\ Len(last.result.axs[r]) = last.result.ncols
             /\ \A c \in 1..last.result.ncols :
                  /\ last.result.axs[r][c] = AssignedTo(last.fig, r - 1, c - 1)
                  /\ \A q \in (r + 1)..last.result.nrows :
                       RLt(axpos[last.result.axs[q][c]].y0,
                           axpos[last.result.axs[r][c]].y0)
        /\ \A a \in PanelsOf(last.fig) :
             Cardinality({rc \in (1..last.result.nrows) \X (1..last.result.ncols) :
                            last.result.axs[rc[1]][rc[2]] = a}) = 1
        /\ \A r \in 1..last.result.nrows, c \in 1..last.result.ncols :
             ~IsColorbarAxes(last.result.axs[r][c])
        /\ last.result.nrows * last.result.ncols
             = Cardinality(PanelsOf(last.fig))

GridMatrixWitness ==
    /\ Resolved
    /\ OneGridFilled(last.fig)
    /\ last.result.error = "none"
    /\ last.result.nrows = 2
    /\ last.result.ncols = 3
    /\ figaxes[last.fig][1] # 1
    /\ \E i \in 1..Len(figaxes[last.fig]) : IsColorbarAxes(figaxes[last.fig][i])

\* the failures of the resolver's precondition
LacksCell(fig) == \E a \in PanelsOf(fig) : subplotspec[a] = NoSpec
SeveralPartitions(fig) ==
    \E a, b \in PanelsOf(fig) : subplotspec[a].gs # subplotspec[b].gs
SpansCells(fig) ==
    \E a \in PanelsOf(fig) : subplotspec[a].num1 # subplotspec[a].num2

\* C13: get_sorted_axes_grid fails with a layout error (ValueError), and
\* changes neither a canvas, a panel nor the registry, whenever a
\* non-colorbar panel of the canvas has no cell assignment, whenever its
\* panels belong to more than one grid partition, and whenever one of its
\* panels spans more than one cell (in a row or in a column).
BadLayoutRaises ==
    Resolved =>
        /\ (LacksCell(last.fig) \/ SeveralPartitions(last.fig)
               \/ SpansCells(last.fig)) => last.result.error = "ValueError"
        /\ figsize = pre.figsize
        /\ axpos = pre.axpos
        /\ colorbars = pre.colorbars

BadLayoutWitness ==
    /\ Resolved
    /\ last.result.error = "ValueError"
    /\ SpansCells(last.fig)
    /\ ~LacksCell(last.fig)
    /\ ~SeveralPartitions(last.fig)
    /\ colorbars # <<>>


(***************************************************************************)
(* The colorbar manager.  Besides the operations of this module, the       *)
(* caller moves and resizes panels (ax.set_position) and resizes canvases  *)
(* (fig.set_size_inches) with matplotlib itself; neither of the two        *)
(* synchronizes the colorbars.                                             *)
(***************************************************************************)
\* the number of operations in a behaviour of the specifications below
MaxOps == 4

Snapshot == [figsize |-> figsize, axpos |-> axpos, colorbars |-> colorbars]

\* an operation that is called with the arguments call and leaves the
\* geometry w and the registry registry behind
Operate(call, w, registry) ==
    /\ steps < MaxOps
    /\ last.outcome # "running"
    /\ steps' = steps + 1
    /\ pre' = Snapshot
    /\ last' = call @@ NoCall
    /\ figsize' = w.figsize
    /\ axpos' = w.axpos
    /\ colorbars' = registry
    /\ UNCHANGED <<figaxes, subplotspec, gcf, optimized, frame>>

\* fig or plt.gcf()
FigOrGcf(fig) == IF fig = "None" THEN gcf ELSE fig

\* ax.set_position(pos)
SetPosition(ax, pos) ==
    Operate([op |-> "set_position", fig |-> AxFig(ax), ax |-> ax],
            [figsize |-> figsize, axpos |-> [axpos EXCEPT ![ax] = pos]],
            colorbars)

\* fig.set_size_inches(size)
SetSizeInches(fig, size) ==
    Operate([op |-> "set_size_inches", fig |-> fig],
            [figsize |-> [figsize EXCEPT ![fig] = size], axpos |-> axpos],
            colorbars)

\* update_colorbars(fig)
UpdateColorbars(fig) ==
    Operate([op |-> "update_colorbars", fig |-> FigOrGcf(fig)],
            update_colorbars(Now, FigOrGcf(fig)), colorbars)

\* the arguments the operations are called with
Parents == {1, AxB}
MovedTo == {Pos(Q(1, 4), Q(1, 4), Q(1, 4), Q(1, 2)),
            Pos(Q(1, 8), Q(3, 8), Q(1, 2), Q(1, 4))}
ResizedTo == {<<Q(3, 1), Q(5, 1)>>}
DoAddColorbarTo ==
    \E ax \in Parents, location \in Locations :
        AddColorbar(ax, location, 18, 9)

DoSetPosition == \E ax \in Parents, pos \in MovedTo : SetPosition(ax, pos)

DoSetSizeInches == \E fig \in Figs, size \in ResizedTo : SetSizeInches(fig, size)

DoUpdateColorbars == \E fig \in Figs \cup {"None"} : UpdateColorbars(fig)

InitColorbars ==
    /\ gcf \in Figs
    /\ \E shape \in {<<1, 1>>, <<2, 3>>} : InitGrid(shape[1], shape[2])

NextColorbars ==
    DoFigure \/ DoAddColorbarTo \/ DoSetPosition \/ DoSetSizeInches
        \/ DoUpdateColorbars

SpecColorbars == InitColorbars /\ [][NextColorbars]_vars

Updated == last.op = "update_colorbars"
\* the registered attachments whose colorbar panel belongs to canvas fig
AttachedIn(fig) ==
    {i \in 1..Len(colorbars) : colorbars[i].ax \in Range(figaxes[fig])}

\* the box c lies flush against the side location of the box p on a canvas
\* of the size fwh: it is thickness_inch thick and pad_inch away from p
Flush(location, c, p, thickness_inch, pad_inch, fwh) ==
    CASE location = "left" ->
           /\ c.y0 = p.y0
           /\ c.height = p.height
           /\ RMul(c.width, fwh[1]) = thickness_inch
           /\ RMul(RSub(p.x0, BoxX1(c)), fwh[1]) = pad_inch
      [] location = "right" ->
           /\ c.y0 = p.y0
           /\ c.height = p.height
           /\ RMul(c.width, fwh[1]) = thickness_inch
           /\ RMul(RSub(c.x0, BoxX1(p)), fwh[1]) = pad_inch
      [] location = "top" ->
           /\ c.x0 = p.x0
           /\ c.width = p.width
           /\ RMul(c.height, fwh[2]) = thickness_inch
           /\ RMul(RSub(c.y0, BoxY1(p)), fwh[2]) = pad_inch
      [] location = "bottom" ->
           /\ c.x0 = p.x0
           /\ c.width = p.width
           /\ RMul(c.height, fwh[2]) = thickness_inch
           /\ RMul(RSub(p.y0, BoxY1(c)), fwh[2]) = pad_inch

FlushNow(cb, fwh) ==
    Flush(cb.location, axpos[cb.ax], axpos[cb.parent_ax], cb.thickness_inch,
          cb.pad_inch, fwh)

\* C14: after update_colorbars(canvas) every registered attachment whose
\* colorbar panel belongs to canvas lies flush against the current core box
\* of its parent at its stored location: left/right colorbars have the
\* parent's y0 and height, the stored thickness as physical width and the
\* stored pad as physical gap to the parent's x0 or x1; top/bottom
\* colorbars have the parent's x0 and width, the stored thickness as
\* physical height and the stored pad as physical gap; whatever moves,
\* resizes and canvas size changes came before.
FlushAfterUpdate ==
    Updated => \A i \in AttachedIn(last.fig) :
                  FlushNow(colorbars[i], figsize[last.fig])

FlushAfterUpdateWitness ==
    /\ Updated
    /\ \E i \in AttachedIn(last.fig) :
          /\ colorbars[i].location = "top"
          /\ ~Flush("top", pre.axpos[colorbars[i].ax],
                    pre.axpos[colorbars[i].parent_ax],
                    colorbars[i].thickness_inch, colorbars[i].pad_inch,
                    pre.figsize[last.fig])
          /\ axpos[colorbars[i].parent_ax].width = Q(1, 2)
          /\ figsize[last.fig] = <<Q(3, 1), Q(5, 1)>>

\* C15: update_colorbars(canvas) changes nothing but the positions of the
\* colorbar panels of canvas: attachments whose colorbar panel is not in
\* canvas are skipped without an error and their panel stays, the registry
\* keeps its contents, and no parent, no other non-colorbar panel and no
\* canvas size is changed.
UpdateMovesOnlyOwnColorbars ==
    Updated =>
        /\ last.outcome = "ok"
        /\ colorbars = pre.colorbars
        /\ figsize = pre.figsize
        /\ DOMAIN axpos = DOMAIN pre.axpos
        /\ \A a \in DOMAIN axpos :
             (~IsColorbarAxes(a) \/ a \notin Range(figaxes[last.fig]))
                => axpos[a] = pre.axpos[a]

UpdateMovesOnlyOwnColorbarsWitness ==
    /\ Updated
    /\ \E i \in AttachedIn(last.fig) : axpos[colorbars[i].ax] # pre.axpos[colorbars[i].ax]
    /\ \E i \in 1..Len(colorbars) :
          /\ i \notin AttachedIn(last.fig)
          /\ ~FlushNow(colorbars[i], figsize[AxFig(colorbars[i].ax)])


(***************************************************************************)
(* add_colorbar with and without explicit thickness and pad, for a panel   *)
(* of the active canvas or of another canvas.                              *)
(***************************************************************************)
\* <<thickness_pts, pad_pts>>
Extents == {<<None, None>>, <<18, None>>, <<None, 9>>, <<18, 9>>}

DoAddAnyColorbar ==
    \E ax \in Parents, location \in Locations, extent \in Extents :
        AddColorbar(ax, location, extent[1], extent[2])

NextAdd == DoFigure \/ DoAddAnyColorbar \/ DoUpdateColorbars

SpecAdd == InitColorbars /\ [][NextAdd]_vars

Added == last.op = "add_colorbar"

\* the physical width (left/right) or height (top/bottom) of panel ax
ExtentInch(ax, location) ==
    IF location \in {"left", "right"}
    THEN RMul(axpos[ax].width, figsize[AxFig(ax)][1])
    ELSE RMul(axpos[ax].height, figsize[AxFig(ax)][2])

\* the attachment cb is what the call of add_colorbar has to register
StoredFor(cb, call) ==
    /\ cb.parent_ax = call.ax
    /\ cb.location = call.location
    /\ cb.thickness_inch =
         IF call.thickness_pts = None
         THEN RMul(Q(5, 100), ExtentInch(call.ax, call.location))
         ELSE Q(call.thickness_pts, PTS_PER_INCH)
    /\ cb.pad_inch =
         IF call.pad_pts = None THEN RMul(Q(6, 10), cb.thickness_inch)
         ELSE Q(call.pad_pts, PTS_PER_INCH)
    /\ update_colorbars(Now, call.fig).axpos[cb.ax] = axpos[cb.ax]

\* C17: add_colorbar stores thickness and pad in physical units: without a
\* thickness, 5% of the parent's physical width (left/right) or height
\* (top/bottom); without a pad, 60% of the thickness; explicit values in
\* pts as pts / 72; and the new colorbar panel is created flush against the
\* parent, so that an immediately following update_colorbars does not move
\* it.
StoredInPhysicalUnits ==
    Added => StoredFor(colorbars[Len(colorbars)], last)


(***************************************************************************)
(* set_axes_size for a panel of the active canvas or of another canvas,    *)
(* with and without colorbars attached.                                    *)
(***************************************************************************)
\* set_axes_size(width_inch, height_inch, ax, anchor)
SetAxesSize(width_inch, height_inch, ax, anchor) ==
    /\ steps < MaxSteps
    /\ Operate([op |-> "set_axes_size", fig |-> gcf, ax |-> ax,
                anchor |-> anchor, width_inch |-> width_inch,
                height_inch |-> height_inch],
               set_axes_size(Now, width_inch, height_inch, ax, anchor),
               colorbars)

\* <<width_inch, height_inch>>
SizesInch == {<<One, Q(1, 2)>>, <<Q(3, 2), Q(5, 4)>>}

DoSetAxesSize ==
    \E size \in SizesInch, ax \in Parents, anchor \in Anchors :
        SetAxesSize(size[1], size[2], ax, anchor)

NextResize == DoFigure \/ DoAddColorbarTo \/ DoSetAxesSize

SpecResize == InitColorbars /\ [][NextResize]_vars

Resized == last.op = "set_axes_size"

\* the anchor point of the box b: horizontally and vertically
AnchorX(b, horizontal) ==
    CASE horizontal = "left" -> b.x0
      [] horizontal = "right" -> BoxX1(b)
      [] horizontal = "center" -> RAdd(b.x0, RHalf(b.width))
AnchorY(b, vertical) ==
    CASE vertical = "lower" -> b.y0
      [] vertical = "upper" -> BoxY1(b)
      [] vertical = "center" -> RAdd(b.y0, RHalf(b.height))

\* the box now is width_inch x height_inch on a canvas of the size fwh and
\* has the anchor point of the box old
ResizedAbout(now, old, fwh, width_inch, height_inch, anchor_split) ==
    /\ RMul(now.width, fwh[1]) = width_inch
    /\ RMul(now.height, fwh[2]) = height_inch
    /\ RMul(AnchorX(now, anchor_split[2]), fwh[1])
         = RMul(AnchorX(old, anchor_split[2]), fwh[1])
    /\ RMul(AnchorY(now, anchor_split[1]), fwh[2])
         = RMul(AnchorY(old, anchor_split[1]), fwh[2])

\* C20: after set_axes_size(width, height, panel, anchor), for each of the
\* nine anchors (corners, edge midpoints, center), the panel's physical
\* width and height are the requested ones and the anchor point has kept
\* its physical position on the canvas; no other non-colorbar panel and no
\* canvas size has changed.
SizeSetAboutAnchor ==
    Resized =>
        /\ ResizedAbout(axpos[last.ax], pre.axpos[last.ax],
                        figsize[AxFig(last.ax)], last.width_inch,
                        last.height_inch, AnchorSplit(last.anchor))
        /\ \A a \in GridAxes \ {last.ax} : axpos[a] = pre.axpos[a]
        /\ figsize = pre.figsize


(***************************************************************************)
(* align_axes_vertically and align_axes_horizontally: the panel ax is      *)
(* moved along one direction to the reference panel; both end with         *)
(* update_colorbars() on the active canvas.                                *)
(***************************************************************************)
\* the new y0 of the box bbox_ax
VerticalY0(bbox_ax, bbox_ref, alignment) ==
    CASE alignment = "center" ->
           RAdd(bbox_ref.y0, RHalf(RSub(bbox_ref.height, bbox_ax.height)))
      [] alignment = "top" -> RSub(BoxY1(bbox_ref), bbox_ax.height)
      [] alignment = "bottom" -> bbox_ref.y0

\* the new x0 of the box bbox_ax
HorizontalX0(bbox_ax, bbox_ref, alignment) ==
    CASE alignment = "center" ->
           RAdd(bbox_ref.x0, RHalf(RSub(bbox_ref.width, bbox_ax.width)))
      [] alignment = "left" -> RSub(BoxX1(bbox_ref), bbox_ax.width)
      [] alignment = "right" -> bbox_ref.x0

\* "top" and "bottom" taken for each other
align_axes_vertically_swapped(w, ax, reference_ax, alignment) ==
    IF alignment \notin {"center", "top", "bottom"}
    THEN [outcome |-> "ValueError", w |-> w]
    ELSE [outcome |-> "ok",
          w |-> update_colorbars(
                  [w EXCEPT !.axpos[ax].y0 =
                      VerticalY0(w.axpos[ax], w.axpos[reference_ax],
                                 CASE alignment = "top" -> "bottom"
                                   [] alignment = "bottom" -> "top"
                                   [] OTHER -> alignment)],
                  gcf)]

align_axes_vertically(w, ax, reference_ax, alignment) ==
    IF alignment \notin {"center", "top", "bottom"}
    THEN [outcome |-> "ValueError", w |-> w]
    ELSE [outcome |-> "ok",
          w |-> update_colorbars(
                  [w EXCEPT !.axpos[ax].y0 =
                      VerticalY0(w.axpos[ax], w.axpos[reference_ax], alignment)],
                  gcf)]

align_axes_horizontally(w, ax, reference_ax, alignment) ==
    IF alignment \notin {"center", "left", "right"}
    THEN [outcome |-> "ValueError", w |-> w]
    ELSE [outcome |-> "ok",
          w |-> update_colorbars(
                  [w EXCEPT !.axpos[ax].x0 =
                      HorizontalX0(w.axpos[ax], w.axpos[reference_ax],
                                   alignment)],
                  gcf)]

\* an operation that was called with the arguments call has ended with the
\* outcome and the geometry of res
Conclude(call, res) ==
    /\ steps < MaxSteps
    /\ Operate([outcome |-> res.outcome] @@ call, res.w, colorbars)

AlignAxesVertically(ax, reference_ax, alignment) ==
    Conclude([op |-> "align_axes_vertically", fig |-> gcf, ax |-> ax,
              reference_ax |-> reference_ax, alignment |-> alignment],
             align_axes_vertically(Now, ax, reference_ax, alignment))

AlignAxesHorizontally(ax, reference_ax, alignment) ==
    Conclude([op |-> "align_axes_horizontally", fig |-> gcf, ax |-> ax,
              reference_ax |-> reference_ax, alignment |-> alignment],
             align_axes_horizontally(Now, ax, reference_ax, alignment))

\* the arguments the operations are called with: two panels of canvas "A"
\* and an alignment, also one that the function does not know
AlignedPairs == {<<1, 2>>, <<2, 1>>}
Alignments == {"center", "top", "bottom", "left", "right"}

DoAlignAxesVertically ==
    \E pair \in AlignedPairs, alignment \in Alignments :
        AlignAxesVertically(pair[1], pair[2], alignment)

DoAlignAxesHorizontally ==
    \E pair \in AlignedPairs, alignment \in Alignments :
        AlignAxesHorizontally(pair[1], pair[2], alignment)

InitAlign ==
    /\ gcf \in Figs
    /\ \E shape \in {<<1, 2>>, <<2, 1>>, <<2, 3>>} : InitGrid(shape[1], shape[2])

NextAlign ==
    DoFigure \/ DoAddColorbarTo \/ DoAlignAxesVertically
        \/ DoAlignAxesHorizontally

SpecAlign == InitAlign /\ [][NextAlign]_vars

CenterX(b) == RAdd(b.x0, RHalf(b.width))
CenterY(b) == RAdd(b.y0, RHalf(b.height))

\* the box now shares the left edge, right edge or horizontal center with
\* the box ref
SharesHorizontally(now, ref, alignment) ==
    CASE alignment = "left" -> now.x0 = ref.x0
      [] alignment = "right" -> BoxX1(now) = BoxX1(ref)
      [] alignment = "center" -> CenterX(now) = CenterX(ref)

\* the box now shares the top edge, bottom edge or vertical center with ref
SharesVertically(now, ref, alignment) ==
    CASE alignment = "top" -> BoxY1(now) = BoxY1(ref)
      [] alignment = "bottom" -> now.y0 = ref.y0
      [] alignment = "center" -> CenterY(now) = CenterY(ref)

\* C18: after align_axes_horizontally(panel, reference, alignment) the
\* panel's left edge is the reference's left edge for "left", its right
\* edge the reference's right edge for "right", and the horizontal centers
\* coincide for "center"; the panel's y0, width and height and the
\* reference panel are unchanged.
AlignedHorizontally ==
    (last.op = "align_axes_horizontally"
       /\ last.alignment \in {"left", "right", "center"}) =>
        /\ last.outcome = "ok"
        /\ SharesHorizontally(axpos[last.ax], axpos[last.reference_ax],
                              last.alignment)
        /\ axpos[last.ax].y0 = pre.axpos[last.ax].y0
        /\ axpos[last.ax].width = pre.axpos[last.ax].width
        /\ axpos[last.ax].height = pre.axpos[last.ax].height
        /\ axpos[last.reference_ax] = pre.axpos[last.reference_ax]

\* C19: after align_axes_vertically(panel, reference, alignment) the
\* panel's top edge is the reference's top edge for "top", the bottom edges
\* are equal for "bottom", and the vertical centers coincide for "center";
\* the panel's x0, width and height and the reference panel are unchanged;
\* any other alignment raises an error and nothing is moved.
AlignedVertically ==
    last.op = "align_axes_vertically" =>
        IF last.alignment \in {"top", "bottom", "center"}
        THEN /\ last.outcome = "ok"
             /\ SharesVertically(axpos[last.ax], axpos[last.reference_ax],
                                 last.alignment)
             /\ axpos[last.ax].x0 = pre.axpos[last.ax].x0
             /\ axpos[last.ax].width = pre.axpos[last.ax].width
             /\ axpos[last.ax].height = pre.axpos[last.ax].height
             /\ axpos[last.reference_ax] = pre.axpos[last.reference_ax]
        ELSE /\ last.outcome = "ValueError"
             /\ axpos = pre.axpos
             /\ figsize = pre.figsize

AlignedVerticallyWitness ==
    /\ last.op = "align_axes_vertically"
    /\ last.alignment = "top"
    /\ axpos[last.ax].y0 # pre.axpos[last.ax].y0
    /\ axpos[last.ax].height # axpos[last.reference_ax].height
    /\ \E i \in 1..Len(colorbars) :
          /\ colorbars[i].parent_ax = last.ax
          /\ axpos[colorbars[i].ax] # pre.axpos[colorbars[i].ax]


(***************************************************************************)
(* set_min_column_pads and set_min_row_pads: the columns (rows) of the     *)
(* grid of fig are shifted by the difference between their smallest gap    *)
(* and the requested one; both end with update_colorbars() on the active   *)
(* canvas.                                                                 *)
(***************************************************************************)
\* get_column_pads_inches: xpads_inch[row][col], the gap between the
\* columns col and col + 1 in row row
get_column_pads_inches(w, grid, fig_width_inch) ==
    Tuple([row \in 1..grid.nrows |->
             Tuple([col \in 1..(grid.ncols - 1) |->
                      RMul(RSub(w.axpos[grid.axs[row][col + 1]].x0,
                                BoxX1(w.axpos[grid.axs[row][col]])),
                           fig_width_inch)],
                   grid.ncols - 1)],
          grid.nrows)

\* get_row_pads_inches: ypads_inch[row][col], the gap between the rows row
\* and row + 1 in column col
get_row_pads_inches(w, grid, fig_height_inch) ==
    Tuple([row \in 1..(grid.nrows - 1) |->
             Tuple([col \in 1..grid.ncols |->
                      RMul(RSub(w.axpos[grid.axs[row][col]].y0,
                                BoxY1(w.axpos[grid.axs[row + 1][col]])),
                           fig_height_inch)],
                   grid.ncols)],
          grid.nrows - 1)

\* a - b for two one-dimensional arrays of broadcastable shapes
Broadcastable(a, b) == Len(a) = Len(b) \/ Len(a) = 1 \/ Len(b) = 1
Minus(a, b) ==
    Tuple([i \in 1..(IF Len(a) > Len(b) THEN Len(a) ELSE Len(b)) |->
             RSub(a[IF Len(a) = 1 THEN 1 ELSE i], b[IF Len(b) = 1 THEN 1 ELSE i])],
          IF Len(a) > Len(b) THEN Len(a) ELSE Len(b))

\* an argument of size 1 is broadcast to n values
Broadcast(v, n) == IF Len(v) = 1 THEN Tuple([i \in 1..n |-> v[1]], n) ELSE v

\* the loop over the columns and update_colorbars()
ColumnsShifted(w, grid, deltas, fw_inch) ==
    update_colorbars(
        [w EXCEPT !.axpos =
            [a \in DOMAIN w.axpos |->
                IF CellOf(grid, a)[2] > 1
                THEN [w.axpos[a] EXCEPT !.x0 =
                        RSub(@, RDiv(RMul(Q(CellOf(grid, a)[2] - 1, 1),
                                          deltas[CellOf(grid, a)[2] - 1]),
                                     fw_inch))]
                ELSE w.axpos[a]]],
        gcf)

\* np.min(xpads, axis=0): the smallest gap per pair of columns
MinOverRows(xpads, ncols) ==
    Tuple([col \in 1..(ncols - 1) |->
             RMin({xpads[row][col] : row \in 1..Len(xpads)})],
          ncols - 1)

\* np.min(ypads, axis=1): the smallest gap per pair of rows
MinOverColumns(ypads, ncols) ==
    Tuple([row \in 1..Len(ypads) |->
             RMin({ypads[row][col] : col \in 1..ncols})],
          Len(ypads))

\* the body of set_min_column_pads after the grid is resolved
ColumnPadsSet(w, column_pad_pts, grid, fw_inch) ==
    IF grid.error # "none" THEN [outcome |-> grid.error, w |-> w]
    ELSE IF grid.ncols = 1 THEN [outcome |-> "ValueError", w |-> w]
    ELSE IF Len(column_pad_pts.v) # 1 /\ Len(column_pad_pts.v) # grid.ncols - 1
    THEN [outcome |-> "ValueError", w |-> w]
    ELSE [outcome |-> "ok",
          w |-> ColumnsShifted(
                  w, grid,
                  Minus(MinOverRows(get_column_pads_inches(w, grid, fw_inch),
                                    grid.ncols),
                        Tuple([i \in 1..(grid.ncols - 1) |->
                                 RDiv(Q(Broadcast(column_pad_pts.v,
                                                  grid.ncols - 1)[i], 1),
                                      fw_inch)],
                              grid.ncols - 1)),
                  fw_inch)]

set_min_column_pads(w, column_pad_pts, fig) ==
    ColumnPadsSet(w, column_pad_pts, get_sorted_axes_grid(fig),
                  w.figsize[fig][1])

\* the loop over the rows and update_colorbars()
RowsShifted(w, grid, deltas, fig_height_inch) ==
    update_colorbars(
        [w EXCEPT !.axpos =
            [a \in DOMAIN w.axpos |->
                IF CellOf(grid, a)[1] > 1
                THEN [w.axpos[a] EXCEPT !.y0 =
                        RAdd(@, RDiv(RMul(Q(CellOf(grid, a)[1] - 1, 1),
                                          deltas[CellOf(grid, a)[1] - 1]),
                                     fig_height_inch))]
                ELSE w.axpos[a]]],
        gcf)

\* the body of set_min_row_pads after the pads are validated
RowPadsSubtracted(w, grid, mins, ypads_inches, fig_height_inch) ==
    IF ~Broadcastable(mins, ypads_inches)
    THEN [outcome |-> "ValueError", w |-> w]
    ELSE [outcome |-> "ok",
          w |-> RowsShifted(w, grid, Minus(mins, ypads_inches),
                            fig_height_inch)]

\* the body of set_min_row_pads after the grid is resolved
RowPadsSet(w, ypads_pts, grid, fig_height_inch) ==
    IF grid.error # "none" THEN [outcome |-> grid.error, w |-> w]
    ELSE IF grid.ncols = 1 THEN [outcome |-> "ValueError", w |-> w]
    ELSE IF Len(ypads_pts.v) # 1 /\ Len(ypads_pts.v) # grid.ncols - 1
    THEN [outcome |-> "ValueError", w |-> w]
    ELSE IF grid.nrows = 1 THEN [outcome |-> "ValueError", w |-> w]
    ELSE RowPadsSubtracted(
             w, grid,
             MinOverColumns(get_row_pads_inches(w, grid, fig_height_inch),
                            grid.ncols),
             ToInch(Broadcast(ypads_pts.v, grid.ncols - 1)),
             fig_height_inch)

set_min_row_pads(w, ypads_pts, fig) ==
    RowPadsSet(w, ypads_pts, get_sorted_axes_grid(fig), w.figsize[fig][2])

SetMinColumnPads(column_pad_pts, fig) ==
    Conclude([op |-> "set_min_column_pads", fig |-> FigOrGcf(fig),
              column_pad_pts |-> column_pad_pts],
             set_min_column_pads(Now, column_pad_pts, FigOrGcf(fig)))

SetMinRowPads(ypads_pts, fig) ==
    Conclude([op |-> "set_min_row_pads", fig |-> FigOrGcf(fig),
              ypads_pts |-> ypads_pts],
             set_min_row_pads(Now, ypads_pts, FigOrGcf(fig)))


(***************************************************************************)
(* The registry of colorbars under every operation of the module, and      *)
(* under plt.close(fig), which removes a canvas from pyplot only.          *)
(***************************************************************************)
\* only the attachments of the active canvas are dropped
clear_colorbars_of_active(registry) ==
    LET Elsewhere(cb) == cb.ax \notin Range(figaxes[gcf])
    IN  SelectSeq(registry, Elsewhere)

\* del _colorbar_manager.colorbars[:]
clear_colorbars(registry) == <<>>

ClearColorbars ==
    Operate([op |-> "clear_colorbars", fig |-> gcf], Now,
            clear_colorbars(colorbars))

\* plt.close(fig): pyplot forgets the canvas, and another canvas is the
\* active one if fig was
Close(fig) ==
    /\ steps < MaxSteps
    /\ last.outcome # "running"
    /\ steps' = steps + 1
    /\ pre' = Snapshot
    /\ last' = [op |-> "close", fig |-> fig] @@ NoCall
    /\ gcf' = IF fig = gcf THEN CHOOSE f \in Figs : f # fig ELSE gcf
    /\ UNCHANGED <<figsize, figaxes, subplotspec, axpos, colorbars,
                   optimized, frame>>

\* the arguments the operations are called with
MinPads == {Scalar(36), Array(<<18, 9>>)}

DoSetMinColumnPads ==
    \E pads \in MinPads, fig \in {"A", "None"} : SetMinColumnPads(pads, fig)

DoSetMinRowPads ==
    \E pads \in MinPads, fig \in {"A", "None"} : SetMinRowPads(pads, fig)

DoMove ==
    \/ \E anchor \in {"center", "upper left"} :
          SetAxesSize(One, Q(1, 2), 1, anchor)
    \/ \E alignment \in {"center", "top"} : AlignAxesVertically(1, 2, alignment)
    \/ \E alignment \in {"center", "left"} :
          AlignAxesHorizontally(2, 1, alignment)

DoArrange ==
    \E fix_figwidth \in BOOLEAN :
        /\ optimized = "no"
        /\ MakeMeNice("A", fix_figwidth, Scalar(18), Scalar(36), Scalar(36),
                      Inf, 1)

DoSynchronize == steps < MaxSteps /\ DoUpdateColorbars

NextRegistry ==
    \/ DoFigure
    \/ DoAddColorbarTo
    \/ ClearColorbars
    \/ DoSynchronize
    \/ DoMove
    \/ DoSetMinColumnPads
    \/ DoSetMinRowPads
    \/ DoArrange
    \/ Recurse
    \/ Close("B")

SpecRegistry == InitAlign /\ [][NextRegistry]_vars

\* C16: the registry of colorbars is empty initially; add_colorbar appends
\* exactly one attachment and leaves the attachments before it as they
\* were; clear_colorbars leaves the registry empty and moves no panel; and
\* no other operation (update_colorbars, set_axes_size, the align
\* functions, set_min_column_pads, set_min_row_pads, make_me_nice, closing
\* a canvas) adds, removes or alters an attachment.
RegistryLifecycle ==
    /\ steps = 0 => colorbars = <<>>
    /\ last.op = "add_colorbar" =>
         /\ Len(colorbars) = Len(pre.colorbars) + 1
         /\ SubSeq(colorbars, 1, Len(pre.colorbars)) = pre.colorbars
    /\ last.op = "clear_colorbars" =>
         /\ colorbars = <<>>
         /\ axpos = pre.axpos
         /\ figsize = pre.figsize
    /\ last.op \notin {"none", "add_colorbar", "clear_colorbars"} =>
         colorbars = pre.colorbars

RegistryLifecycleWitness ==
    /\ last.op = "clear_colorbars"
    /\ Len(pre.colorbars) = 2
    /\ \E i \in 1..2 : pre.colorbars[i].ax \notin Range(figaxes[gcf])
    /\ colorbars = <<>>


(***************************************************************************)
(* set_min_column_pads and set_min_row_pads on grids of every shape, with  *)
(* a scalar and with sequences of one and of two values.                   *)
(***************************************************************************)
\* the pads the two functions are called with, in pts
AnyMinPads == {Scalar(36), Array(<<18>>), Array(<<18, 9>>)}

DoSetAnyMinColumnPads ==
    \E pads \in AnyMinPads, fig \in {"A", "None"} : SetMinColumnPads(pads, fig)

DoSetAnyMinRowPads ==
    \E pads \in AnyMinPads, fig \in {"A", "None"} : SetMinRowPads(pads, fig)

NextPads ==
    DoFigure \/ DoAddColorbarTo \/ DoSetAnyMinColumnPads \/ DoSetAnyMinRowPads

\* every shape of Shapes and a grid with two gaps in both directions
InitPads ==
    /\ gcf \in Figs
    /\ \E shape \in Shapes \cup {<<3, 3>>} : InitGrid(shape[1], shape[2])

SpecPads == InitPads /\ [][NextPads]_vars

\* the requested minimum of gap j in inches: pts / 72, a scalar or a
\* sequence of one value standing for every gap
RequestedMin(pads, j) ==
    Q(IF Len(pads.v) = 1 THEN pads.v[1] ELSE pads.v[j], PTS_PER_INCH)

\* the sum of (smallest gap j before - requested minimum of gap j) over the
\* gaps 1..n, in inches
RECURSIVE CumulativeDelta(_, _, _)
CumulativeDelta(mins, pads, n) ==
    IF n = 0 THEN Zero
    ELSE RAdd(CumulativeDelta(mins, pads, n - 1),
              RSub(mins[n], RequestedMin(pads, n)))

\* nothing but the x0 of the panels right of the first column has changed
OnlyColumnsMoved(grid) ==
    /\ figsize = pre.figsize
    /\ \A a \in GridAxes :
         /\ axpos[a].y0 = pre.axpos[a].y0
         /\ axpos[a].width = pre.axpos[a].width
         /\ axpos[a].height = pre.axpos[a].height
         /\ CellOf(grid, a)[2] <= 1 => axpos[a].x0 = pre.axpos[a].x0

\* every gap between adjacent columns is at least its requested minimum
ColumnGapsAtLeast(xpads, pads, grid) ==
    \A row \in 1..grid.nrows, col \in 1..(grid.ncols - 1) :
        RLe(RequestedMin(pads, col), xpads[row][col])

\* every column right of the first has moved left by the cumulative deltas
ColumnsShiftedCumulatively(mins, pads, grid, fw_inch) ==
    \A row \in 1..grid.nrows, col \in 2..grid.ncols :
        RMul(axpos[grid.axs[row][col]].x0, fw_inch)
          = RSub(RMul(pre.axpos[grid.axs[row][col]].x0, fw_inch),
                 CumulativeDelta(mins, pads, col - 1))

ColumnPadsCalled(grid) ==
    /\ last.op = "set_min_column_pads"
    /\ grid.error = "none"
    /\ grid.ncols >= 2
    /\ Len(last.column_pad_pts.v) \in {1, grid.ncols - 1}

\* C21: after set_min_column_pads(min_pads) on a grid with ncols >= 2, for
\* a scalar or ncols-1 values in pts, the horizontal distance between the
\* core boxes of every two adjacent columns is at least the requested
\* minimum in inches (pts / 72), for every ncols and for non-uniform gaps;
\* every column c >= 1 is shifted by the cumulative deltas of the gaps
\* 0..c-1; column 0, all vertical positions and all panel sizes are
\* unchanged.
MinColumnPadsSet ==
    ColumnPadsCalled(Grid) =>
        /\ last.outcome = "ok"
        /\ ColumnGapsAtLeast(
               get_column_pads_inches(Now, Grid, figsize[last.fig][1]),
               last.column_pad_pts, Grid)
        /\ ColumnsShiftedCumulatively(
               MinOverRows(get_column_pads_inches(Before, Grid,
                                                  figsize[last.fig][1]),
                           Grid.ncols),
               last.column_pad_pts, Grid, figsize[last.fig][1])
        /\ OnlyColumnsMoved(Grid)



\* nothing but the y0 of the panels below the first row has changed
OnlyRowsMoved(grid) ==
    /\ figsize = pre.figsize
    /\ \A a \in GridAxes :
         /\ axpos[a].x0 = pre.axpos[a].x0
         /\ axpos[a].width = pre.axpos[a].width
         /\ axpos[a].height = pre.axpos[a].height
         /\ CellOf(grid, a)[1] <= 1 => axpos[a].y0 = pre.axpos[a].y0

\* every gap between adjacent rows is at least its requested minimum
RowGapsAtLeast(ypads, pads, grid) ==
    \A row \in 1..(grid.nrows - 1), col \in 1..grid.ncols :
        RLe(RequestedMin(pads, row), ypads[row][col])

\* every row below the first has moved up by the cumulative deltas
RowsShiftedCumulatively(mins, pads, grid, fh_inch) ==
    \A row \in 2..grid.nrows, col \in 1..grid.ncols :
        RMul(axpos[grid.axs[row][col]].y0, fh_inch)
          = RAdd(RMul(pre.axpos[grid.axs[row][col]].y0, fh_inch),
                 CumulativeDelta(mins, pads, row - 1))

RowPadsCalled(grid) ==
    /\ last.op = "set_min_row_pads"
    /\ grid.error = "none"
    /\ grid.nrows >= 2
    /\ Len(last.ypads_pts.v) \in {1, grid.nrows - 1}

\* C22: set_min_row_pads(min_pads) works for every grid with nrows >= 2 and
\* any ncols >= 1, for a scalar or nrows-1 values: afterwards the vertical
\* distance between the core boxes of every two adjacent rows is at least
\* the requested minimum in inches (pts / 72); every row r >= 1 is shifted
\* by the cumulative deltas of the gaps 0..r-1; row 0, all horizontal
\* positions and all panel sizes are unchanged.
MinRowPadsSet ==
    RowPadsCalled(Grid) =>
        /\ last.outcome = "ok"
        /\ RowGapsAtLeast(
               get_row_pads_inches(Now, Grid, figsize[last.fig][2]),
               last.ypads_pts, Grid)
        /\ RowsShiftedCumulatively(
               MinOverColumns(get_row_pads_inches(Before, Grid,
                                                  figsize[last.fig][2]),
                              Grid.ncols),
               last.ypads_pts, Grid, figsize[last.fig][2])
        /\ OnlyRowsMoved(Grid)



(***************************************************************************)
(* The colorbars of a canvas after an operation that moves or resizes the  *)
(* panels of that canvas.                                                  *)
(***************************************************************************)
MovedOrResized ==
    /\ last.op \in {"make_me_nice", "set_axes_size", "align_axes_vertically",
                    "align_axes_horizontally", "set_min_column_pads",
                    "set_min_row_pads"}
    /\ last.outcome = "ok"

\* the canvas whose panels the operation has moved: the canvas of the panel
\* it was given, or the canvas it was given
CanvasOfLast ==
    IF last.op \in {"set_axes_size", "align_axes_vertically",
                    "align_axes_horizontally"}
    THEN AxFig(last.ax) ELSE last.fig

\* the attachments whose colorbar and whose parent are panels of canvas fig
ColorbarsOn(fig) ==
    {i \in AttachedIn(fig) : colorbars[i].parent_ax \in Range(figaxes[fig])}

\* C23: after an operation that moves or resizes panels of a canvas C given
\* explicitly (make_me_nice(fig=C), set_axes_size or align_axes_* on a panel
\* of C, set_min_*_pads(fig=C)) every colorbar attached to a panel of C is
\* flush against its parent's new core box, with its physical thickness and
\* pad taken against C's own size, also when another canvas is the active
\* one.
ColorbarsFollowExplicitCanvas ==
    MovedOrResized =>
        \A i \in ColorbarsOn(CanvasOfLast) :
            FlushNow(colorbars[i], figsize[CanvasOfLast])



(***************************************************************************)
(* The passes of a fix_figwidth = True invocation.  The state after the    *)
(* first pass, with last.outcome = "running" and last.passes = 1, is the   *)
(* state the rescale step leaves behind; pre is the geometry before it.    *)
(***************************************************************************)
RescaleStepDone ==
    Invoked /\ last.fix_figwidth /\ last.outcome = "running" /\ last.passes = 1

\* the panel a of canvas fig has scale times the physical width and height
\* it had before, about the same physical center
ScaledAboutCenter(a, fig, scale) ==
    /\ RMul(axpos[a].width, figsize[fig][1])
         = RMul(scale, RMul(pre.axpos[a].width, pre.figsize[fig][1]))
    /\ RMul(axpos[a].height, figsize[fig][2])
         = RMul(scale, RMul(pre.axpos[a].height, pre.figsize[fig][2]))
    /\ RMul(CenterX(axpos[a]), figsize[fig][1])
         = RMul(CenterX(pre.axpos[a]), pre.figsize[fig][1])
    /\ RMul(CenterY(axpos[a]), figsize[fig][2])
         = RMul(CenterY(pre.axpos[a]), pre.figsize[fig][2])

\* C24: in a fix_figwidth = True pass, with scale = current canvas width /
\* target width, every panel of the grid ends the rescale step with scale
\* times the physical width and height it had before the step and with its
\* center at the same physical point; the rescale step does not change the
\* canvas size.
RescaleStepScalesPanels ==
    RescaleStepDone =>
        /\ figsize = pre.figsize
        /\ \A a \in GridAxesOf :
             ScaledAboutCenter(a, last.fig,
                               RDiv(pre.figsize[last.fig][1], TargetWidth))



\* C25: with fix_figwidth = True and nruns = 1 the invocation ends having
\* only rescaled the panels: no repositioning pass runs, so the canvas size
\* is unchanged and every panel of the grid keeps its center; with
\* nruns > 1 the rescale pass is followed by a recursive pass that runs with
\* fix_figwidth = False.
SingleRunOnlyRescales ==
    (Invoked /\ last.fix_figwidth) =>
        /\ last.nruns = 1 =>
             /\ last.passes = 1
             /\ figsize = pre.figsize
             /\ \A a \in GridAxesOf :
                  /\ CenterX(axpos[a]) = CenterX(pre.axpos[a])
                  /\ CenterY(axpos[a]) = CenterY(pre.axpos[a])
        /\ (last.nruns > 1 /\ last.passes = 1 /\ last.outcome = "running") =>
             ~frame.fix_figwidth

\* C26: every invocation of make_me_nice terminates, for every nruns and in
\* either mode: the number of nested passes (the call and its recursive
\* re-invocations) never exceeds nruns when nruns >= 1, and an invocation
\* with fix_figwidth = False runs exactly one pass.
PassesBoundedByRuns ==
    Invoked =>
        /\ last.nruns >= 1 => last.passes <= last.nruns
        /\ ~last.fix_figwidth => last.passes = 1



(***************************************************************************)
(* Canvases whose panels do not fill their grid: canvas "A" has an nrows x *)
(* ncols partition in which the last cell is left empty ("unfilled", the   *)
(* panel was never created) or in which the last panel was put into the    *)
(* cell of the panel before it ("same cell").                              *)
(***************************************************************************)
Fillings == {"filled", "unfilled", "same cell"}

InitFilling(nrows, ncols, n, order, filling) ==
    /\ figsize = [f \in Figs |-> IF f = "A"
                                 THEN <<Q(2 * ncols, 1), Q(2 * nrows, 1)>>
                                 ELSE <<Q(4, 1), Q(3, 1)>>]
    /\ figaxes = [f \in Figs |-> IF f = "A" THEN order ELSE <<AxB>>]
    /\ subplotspec =
         [a \in 0..n |->
            IF a = AxB
            THEN [gs |-> 2, nrows |-> 1, ncols |-> 1, num1 |-> 0, num2 |-> 0]
            ELSE IF a = n /\ filling = "same cell"
            THEN [gs |-> 1, nrows |-> nrows, ncols |-> ncols,
                  num1 |-> a - 2, num2 |-> a - 2]
            ELSE [gs |-> 1, nrows |-> nrows, ncols |-> ncols,
                  num1 |-> a - 1, num2 |-> a - 1]]
    /\ axpos =
         [a \in 0..n |->
            IF a = AxB THEN Pos(Q(1, 8), Q(1, 6), Q(3, 4), Q(2, 3))
            ELSE GridPos(nrows, ncols, ((a - 1) \div ncols) + 1,
                         ((a - 1) % ncols) + 1)]
    /\ colorbars = <<>>
    /\ steps = 0
    /\ optimized = "no"
    /\ last = NoCall
    /\ frame = NoFrame
    /\ pre = [figsize |-> figsize, axpos |-> axpos, colorbars |-> colorbars]

InitAnyFilling ==
    /\ gcf \in Figs
    /\ \E shape \in ListedShapes, filling \in Fillings :
         \E order \in Orders(IF filling = "unfilled"
                             THEN shape[1] * shape[2] - 1
                             ELSE shape[1] * shape[2]) :
            InitFilling(shape[1], shape[2], Len(order), order, filling)

SpecFilling == InitAnyFilling /\ [][NextListing]_vars

\* the cells of the result that hold panel a
CellsHolding(result, a) ==
    {rc \in (1..result.nrows) \X (1..result.ncols) :
        result.axs[rc[1]][rc[2]] = a}

\* C27: whenever get_sorted_axes_grid returns normally, nrows * ncols is the
\* number of non-colorbar panels of the canvas, every cell of the returned
\* matrix holds a panel and no panel is missing: a canvas that leaves a cell
\* of its grid unoccupied, or in which two panels claim the same cell, is
\* rejected with a layout error.
ReturnedGridComplete ==
    (Resolved /\ last.result.error = "none") =>
        /\ last.result.nrows * last.result.ncols
             = Cardinality(PanelsOf(last.fig))
        /\ \A r \in 1..last.result.nrows, c \in 1..last.result.ncols :
             last.result.axs[r][c] \in PanelsOf(last.fig)
        /\ \A a \in PanelsOf(last.fig) : CellsHolding(last.result, a) # {}



(***************************************************************************)
(* get_axes_tightbbox_inch as an operation, on canvases with colorbars on  *)
(* two panels of the same grid.                                            *)
(***************************************************************************)
GetAxesTightbboxInch(ax) ==
    Operate([op |-> "get_axes_tightbbox_inch", fig |-> AxFig(ax), ax |-> ax,
             result |-> get_axes_tightbbox_inch(Now, ax)],
            Now, colorbars)

MeasuredPanels == {1, 2}

DoAddColorbarToPanel ==
    \E ax \in MeasuredPanels, location \in Locations :
        AddColorbar(ax, location, 18, 9)

DoGetAxesTightbboxInch == \E ax \in MeasuredPanels : GetAxesTightbboxInch(ax)

InitMeasure ==
    /\ gcf \in Figs
    /\ \E shape \in {<<1, 2>>, <<2, 3>>} : InitGrid(shape[1], shape[2])

NextMeasure == DoFigure \/ DoAddColorbarToPanel \/ DoGetAxesTightbboxInch

SpecMeasure == InitMeasure /\ [][NextMeasure]_vars

Measured == last.op = "get_axes_tightbbox_inch"

\* the measured boxes of the colorbars attached to panel ax at one of the
\* locations locs
AttachedBoxes(ax, locs) ==
    {get_tightbbox(Now, cb.ax) :
        cb \in {colorbars[i] : i \in {j \in 1..Len(colorbars) :
                                        /\ colorbars[j].parent_ax = ax
                                        /\ colorbars[j].location \in locs}}}

\* x is the smallest / the largest value of the set S
Smallest(x, S) == x \in S /\ \A y \in S : RLe(x, y)
Largest(x, S) == x \in S /\ \A y \in S : RLe(y, x)

\* C28: get_axes_tightbbox_inch(panel) is the per-edge merge (min x0,
\* min y0, max x1, max y1) of the panel's own measured box with the measured
\* boxes of exactly the registered colorbars whose parent is this panel: a
\* left colorbar contributes to x0, y0, y1, a right one to x1, y0, y1, a top
\* one to y1, x0, x1 and a bottom one to y0, x0, x1.  The result contains
\* the panel's own measured box, colorbars of other panels do not affect
\* it, and the call changes neither the registry nor any position.
TightBboxMergesOwnColorbars ==
    Measured =>
        /\ Smallest(last.result.x0,
                    {get_tightbbox(Now, last.ax).x0}
                      \cup {b.x0 : b \in AttachedBoxes(last.ax,
                                           {"left", "top", "bottom"})})
        /\ Smallest(last.result.y0,
                    {get_tightbbox(Now, last.ax).y0}
                      \cup {b.y0 : b \in AttachedBoxes(last.ax,
                                           {"left", "right", "bottom"})})
        /\ Largest(last.result.x1,
                   {get_tightbbox(Now, last.ax).x1}
                     \cup {b.x1 : b \in AttachedBoxes(last.ax,
                                          {"right", "top", "bottom"})})
        /\ Largest(last.result.y1,
                   {get_tightbbox(Now, last.ax).y1}
                     \cup {b.y1 : b \in AttachedBoxes(last.ax,
                                          {"left", "right", "top"})})
        /\ RLe(last.result.x0, get_tightbbox(Now, last.ax).x0)
        /\ RLe(last.result.y0, get_tightbbox(Now, last.ax).y0)
        /\ RLe(get_tightbbox(Now, last.ax).x1, last.result.x1)
        /\ RLe(get_tightbbox(Now, last.ax).y1, last.result.y1)
        /\ colorbars = pre.colorbars
        /\ axpos = pre.axpos
        /\ figsize = pre.figsize

\* a panel with a colorbar on its right that widens the result, while the
\* colorbar of the panel beside it reaches further right and does not
TightBboxWitness ==
    /\ Measured
    /\ last.ax = 1
    /\ \E i, j \in 1..Len(colorbars) :
          /\ colorbars[i].parent_ax = 1
          /\ colorbars[i].location = "right"
          /\ colorbars[j].parent_ax = 2
          /\ colorbars[j].location = "right"
          /\ last.result.x1 = get_tightbbox(Now, colorbars[i].ax).x1
          /\ RLt(last.result.x1, get_tightbbox(Now, colorbars[j].ax).x1)
    /\ RLt(get_tightbbox(Now, 1).x1, last.result.x1)



(***************************************************************************)
(* The slacks the optimizer computes.  After the first pass of an          *)
(* invocation pre is the geometry the pass has measured.                   *)
(***************************************************************************)
SlacksComputed ==
    /\ Invoked
    /\ last.passes = 1
    /\ Grid.error = "none"
    /\ last.outcome # "ValueError"

\* the boxes a and b have inner points in common
Overlap(a, b) ==
    /\ RLt(a.x0, b.x1)
    /\ RLt(b.x0, a.x1)
    /\ RLt(a.y0, b.y1)
    /\ RLt(b.y0, a.y1)

\* no two tight boxes of the matrix tb overlap
ContentDisjoint(tb) ==
    \A p, q \in (1..Len(tb)) \X (1..Len(tb[1])) :
        p # q => ~Overlap(tb[p[1]][p[2]], tb[q[1]][q[2]])

SlacksNonNegative(tb, fh_inch) ==
    /\ \A col \in 1..Len(tb[1]) : RLe(Zero, extra_wspaces_inch(tb)[col])
    /\ \A row \in 1..Len(tb) : RLe(Zero, extra_hspaces_inch(tb, fh_inch)[row])

\* C29: for a rendered grid in which the content (the tight boxes) of no
\* two panels overlaps, every column slack and every row slack the
\* optimizer computes is >= 0, the slack of column 0 (measured from the left
\* edge of the canvas) and of row 0 (measured from its top edge) included.
DisjointContentHasSlack ==
    (SlacksComputed /\ ContentDisjoint(tbboxes_inch(Before, Grid))) =>
        SlacksNonNegative(tbboxes_inch(Before, Grid), pre.figsize[last.fig][2])



\* the content of every column lies right of the content of the column
\* before it, the content of every row below the content of the row above
\* it, and no content reaches beyond the left or the top edge of the canvas
ColumnsApart(tb) ==
    \A col \in 2..Len(tb[1]), r, q \in 1..Len(tb) :
        RLe(tb[q][col - 1].x1, tb[r][col].x0)
RowsApart(tb) ==
    \A row \in 2..Len(tb), c, d \in 1..Len(tb[1]) :
        RLe(tb[row][d].y1, tb[row - 1][c].y0)
OnCanvas(tb, fh_inch) ==
    \A r \in 1..Len(tb), c \in 1..Len(tb[1]) :
        /\ RLe(Zero, tb[r][c].x0)
        /\ RLe(tb[r][c].y1, fh_inch)

\* C29 as amended: for a rendered grid in which the content of every column
\* lies right of the content of the column before it, the content of every
\* row lies below the content of the row above it, and no content reaches
\* beyond the left or the top edge of the canvas, every column slack and
\* every row slack the optimizer computes is >= 0, those of column 0 and of
\* row 0 included.
SeparatedContentHasSlack ==
    (/\ SlacksComputed
     /\ ColumnsApart(tbboxes_inch(Before, Grid))
     /\ RowsApart(tbboxes_inch(Before, Grid))
     /\ OnCanvas(tbboxes_inch(Before, Grid), pre.figsize[last.fig][2])) =>
        SlacksNonNegative(tbboxes_inch(Before, Grid), pre.figsize[last.fig][2])

\* a grid of several rows and columns with room at its top and between its
\* columns
SeparatedContentWitness ==
    /\ SlacksComputed
    /\ Grid.nrows > 1
    /\ Grid.ncols > 1
    /\ ColumnsApart(tbboxes_inch(Before, Grid))
    /\ RowsApart(tbboxes_inch(Before, Grid))
    /\ OnCanvas(tbboxes_inch(Before, Grid), pre.figsize[last.fig][2])
    /\ RLt(Zero, extra_hspaces_inch(tbboxes_inch(Before, Grid),
                                    pre.figsize[last.fig][2])[1])
    /\ RLt(Zero, extra_wspaces_inch(tbboxes_inch(Before, Grid))[2])



(***************************************************************************)
(* Edges: the dataclass of four values with positional and named access.   *)
(***************************************************************************)
Edges(left, right, top, bottom) ==
    [left |-> left, right |-> right, top |-> top, bottom |-> bottom]

\* __iter__: the values in the order they are yielded
Edges_iter(e) == <<e.right, e.left, e.top, e.bottom>>

\* __getitem__ with an int key (from 0), and with a str key, which is looked
\* up in ["left", "right", "top", "bottom"] first
Edges_getitem(e, key) == <<e.left, e.right, e.top, e.bottom>>[key + 1]
EdgeIndex(key) ==
    (CHOOSE i \in 1..4 : <<"left", "right", "top", "bottom">>[i] = key) - 1
Edges_getitem_str(e, key) == Edges_getitem(e, EdgeIndex(key))

\* __len__
Edges_len(e) == 4

\* e = Edges(left, right, top, bottom); list(e); len(e)
ListEdges(left, right, top, bottom) ==
    /\ steps < MaxSteps
    /\ Operate([op |-> "Edges", e |-> Edges(left, right, top, bottom),
                listed |-> Edges_iter(Edges(left, right, top, bottom)),
                len |-> Edges_len(Edges(left, right, top, bottom))],
               Now, colorbars)

EdgeValues == 0..2

DoListEdges ==
    \E left, right, top, bottom \in EdgeValues :
        ListEdges(left, right, top, bottom)

NextEdges == DoFigure \/ DoListEdges

SpecEdges == Init /\ [][NextEdges]_vars

\* C30: Edges has one order for all its access paths: e[0] = e['left'] =
\* e.left, e[1] = e['right'] = e.right, e[2] = e['top'] = e.top, e[3] =
\* e['bottom'] = e.bottom; iterating e yields the values in the order of the
\* positional indices 0..3, so that Edges(*e) equals e; len(e) is 4.
EdgesOneOrder ==
    last.op = "Edges" =>
        /\ Edges_getitem(last.e, 0) = last.e.left
        /\ Edges_getitem(last.e, 1) = last.e.right
        /\ Edges_getitem(last.e, 2) = last.e.top
        /\ Edges_getitem(last.e, 3) = last.e.bottom
        /\ Edges_getitem_str(last.e, "left") = last.e.left
        /\ Edges_getitem_str(last.e, "right") = last.e.right
        /\ Edges_getitem_str(last.e, "top") = last.e.top
        /\ Edges_getitem_str(last.e, "bottom") = last.e.bottom
        /\ Len(last.listed) = 4
        /\ \A i \in 0..3 : last.listed[i + 1] = Edges_getitem(last.e, i)
        /\ Edges(last.listed[1], last.listed[2], last.listed[3],
                 last.listed[4]) = last.e
        /\ last.len = 4

====
